---- MODULE Spec2Model ----
(***************************************************************************)
(* Model of the Octagon Excel add-in request/response pipeline:            *)
(* credential store, agent client (callAgent / OCTAGON_AGENT), output      *)
(* formatter (getTextFormat / parseTextFormat, both variants) and the      *)
(* streamed-response decoder (handleStreamedResponse).                     *)
(*                                                                         *)
(* JavaScript strings are sequences of atoms (one-character strings, or a  *)
(* whole word standing for its characters).  JavaScript values are tagged  *)
(* records [t, v].                                                         *)
(***************************************************************************)
EXTENDS Integers, Sequences, FiniteSets, TLC

\* ------------------------------------------------------------------------
\* Bounds of the model
\* ------------------------------------------------------------------------
MaxRows == 2
MaxCols == 2
MaxLines == 7
MaxText == 3
MaxStream == 2
MaxParts == 2

\* ------------------------------------------------------------------------
\* JavaScript values
\* ------------------------------------------------------------------------
Undefined == [t |-> "undef", v |-> 0]
Null == [t |-> "null", v |-> 0]
Num(n) == [t |-> "num", v |-> n]
Str(s) == [t |-> "str", v |-> s]
Bool(b) == [t |-> "bool", v |-> b]
Arr(s) == [t |-> "arr", v |-> s]
Obj(ps) == [t |-> "obj", v |-> ps]
Prop(k, x) == [k |-> k, val |-> x]

\* Boolean coercion of a value (the operand of !, || and if).
Truthy(x) ==
  CASE x.t = "undef" -> FALSE
    [] x.t = "null" -> FALSE
    [] x.t = "bool" -> x.v
    [] x.t = "num" -> x.v # 0
    [] x.t = "str" -> x.v # <<>>
    [] OTHER -> TRUE

\* Reading a property of null or undefined throws a TypeError.
PropThrows(x) == x.t \in {"undef", "null"}

HasOwn(x, k) == x.t = "obj" /\ \E i \in 1..Len(x.v) : x.v[i].k = k

\* x.k for a key that no prototype defines: the own property or undefined.
GetProp(x, k) ==
  IF HasOwn(x, k)
  THEN x.v[CHOOSE i \in 1..Len(x.v) : x.v[i].k = k].val
  ELSE Undefined

\* Assignment of an own property: a repeated key keeps its position.
SetProp(ps, k, x) ==
  IF \E i \in 1..Len(ps) : ps[i].k = k
  THEN [i \in 1..Len(ps) |-> IF ps[i].k = k THEN Prop(k, x) ELSE ps[i]]
  ELSE Append(ps, Prop(k, x))

\* ------------------------------------------------------------------------
\* JSON text: atoms, JSON.parse and JSON.stringify
\* ------------------------------------------------------------------------
QUOTE == "\""
BSLASH == "\\"
SPACE == " "
NEWLINE == "\n"

DigitAtoms == <<"0", "1", "2", "3", "4", "5", "6", "7", "8", "9">>
DigitSet == {DigitAtoms[i] : i \in 1..10}
DigitVal(a) == (CHOOSE i \in 1..10 : DigitAtoms[i] = a) - 1

IsWs(a) == a \in {SPACE, NEWLINE}

RECURSIVE SkipWs(_, _)
SkipWs(s, i) == IF i <= Len(s) /\ IsWs(s[i]) THEN SkipWs(s, i + 1) ELSE i

ParseFail == [ok |-> FALSE, val |-> Undefined, pos |-> 0]
ParseOk(x, p) == [ok |-> TRUE, val |-> x, pos |-> p]

\* A string literal from the atom after the opening quote; a backslash
\* escapes a quote or a backslash; a raw newline is not allowed.
RECURSIVE ParseString(_, _, _)
ParseString(s, i, acc) ==
  IF i > Len(s) THEN ParseFail
  ELSE IF s[i] = QUOTE THEN ParseOk(Str(acc), i + 1)
  ELSE IF s[i] = NEWLINE THEN ParseFail
  ELSE IF s[i] = BSLASH
       THEN IF i + 1 <= Len(s) /\ s[i + 1] \in {QUOTE, BSLASH}
            THEN ParseString(s, i + 2, Append(acc, s[i + 1]))
            ELSE ParseFail
  ELSE ParseString(s, i + 1, Append(acc, s[i]))

\* A number literal: 0, or a non-zero digit followed by digits.
RECURSIVE ParseDigits(_, _, _)
ParseDigits(s, i, n) ==
  IF i <= Len(s) /\ s[i] \in DigitSet
  THEN ParseDigits(s, i + 1, 10 * n + DigitVal(s[i]))
  ELSE ParseOk(Num(n), i)

ParseNumber(s, i) ==
  IF s[i] = "0" THEN ParseOk(Num(0), i + 1) ELSE ParseDigits(s, i, 0)

RECURSIVE ParseValue(_, _), ParseElements(_, _, _), ParseMembers(_, _, _)

ParseValue(s, i0) ==
  LET i == SkipWs(s, i0) IN
  IF i > Len(s) THEN ParseFail
  ELSE CASE s[i] = "{" ->
              (LET j == SkipWs(s, i + 1) IN
               IF j <= Len(s) /\ s[j] = "}" THEN ParseOk(Obj(<<>>), j + 1)
               ELSE ParseMembers(s, j, <<>>))
         [] s[i] = "[" ->
              (LET j == SkipWs(s, i + 1) IN
               IF j <= Len(s) /\ s[j] = "]" THEN ParseOk(Arr(<<>>), j + 1)
               ELSE ParseElements(s, j, <<>>))
         [] s[i] = QUOTE -> ParseString(s, i + 1, <<>>)
         [] s[i] \in DigitSet -> ParseNumber(s, i)
         [] s[i] = "null" -> ParseOk(Null, i + 1)
         [] s[i] = "true" -> ParseOk(Bool(TRUE), i + 1)
         [] s[i] = "false" -> ParseOk(Bool(FALSE), i + 1)
         [] OTHER -> ParseFail

\* The elements of an array after "[": value ("," value)* "]".
ParseElements(s, i, acc) ==
  LET r == ParseValue(s, i) IN
  IF ~r.ok THEN ParseFail
  ELSE LET j == SkipWs(s, r.pos) IN
       IF j > Len(s) THEN ParseFail
       ELSE IF s[j] = "]" THEN ParseOk(Arr(Append(acc, r.val)), j + 1)
       ELSE IF s[j] = "," THEN ParseElements(s, j + 1, Append(acc, r.val))
       ELSE ParseFail

\* The members of an object after "{": string ":" value ("," ...)* "}".
ParseMembers(s, i0, acc) ==
  LET i == SkipWs(s, i0) IN
  IF i > Len(s) \/ s[i] # QUOTE THEN ParseFail
  ELSE LET k == ParseString(s, i + 1, <<>>) IN
       IF ~k.ok THEN ParseFail
       ELSE LET c == SkipWs(s, k.pos) IN
            IF c > Len(s) \/ s[c] # ":" THEN ParseFail
            ELSE LET r == ParseValue(s, c + 1) IN
                 IF ~r.ok THEN ParseFail
                 ELSE LET j == SkipWs(s, r.pos) IN
                      IF j > Len(s) THEN ParseFail
                      ELSE IF s[j] = "}"
                           THEN ParseOk(Obj(SetProp(acc, k.val.v, r.val)), j + 1)
                      ELSE IF s[j] = ","
                           THEN ParseMembers(s, j + 1, SetProp(acc, k.val.v, r.val))
                      ELSE ParseFail

\* JSON.parse(s): ok = FALSE stands for the SyntaxError it throws.
JSONparse(s) ==
  LET r == ParseValue(s, 1) IN
  IF r.ok /\ SkipWs(s, r.pos) = Len(s) + 1 THEN r ELSE ParseFail

RECURSIVE NatToAtoms(_)
NatToAtoms(n) ==
  IF n < 10 THEN <<DigitAtoms[n + 1]>>
  ELSE NatToAtoms(n \div 10) \o <<DigitAtoms[(n % 10) + 1]>>

RECURSIVE EscapeAtoms(_)
EscapeAtoms(s) ==
  IF s = <<>> THEN <<>>
  ELSE (IF Head(s) \in {QUOTE, BSLASH} THEN <<BSLASH, Head(s)>> ELSE <<Head(s)>>)
       \o EscapeAtoms(Tail(s))

QuoteString(s) == <<QUOTE>> \o EscapeAtoms(s) \o <<QUOTE>>

RECURSIVE JSONstringify(_), StringifyElements(_, _), StringifyMembers(_, _, _)

\* JSON.stringify(x) for a value other than undefined.
JSONstringify(x) ==
  CASE x.t = "num" -> NatToAtoms(x.v)
    [] x.t = "str" -> QuoteString(x.v)
    [] x.t = "bool" -> IF x.v THEN <<"true">> ELSE <<"false">>
    [] x.t = "arr" -> <<"[">> \o StringifyElements(x.v, 1) \o <<"]">>
    [] x.t = "obj" -> <<"{">> \o StringifyMembers(x.v, 1, TRUE) \o <<"}">>
    [] OTHER -> <<"null">>

\* An undefined element of an array is written as null.
StringifyElements(xs, i) ==
  IF i > Len(xs) THEN <<>>
  ELSE (IF i > 1 THEN <<",">> ELSE <<>>)
       \o JSONstringify(xs[i])
       \o StringifyElements(xs, i + 1)

\* A property whose value is undefined is left out.
StringifyMembers(ps, i, first) ==
  IF i > Len(ps) THEN <<>>
  ELSE IF ps[i].val.t = "undef" THEN StringifyMembers(ps, i + 1, first)
  ELSE (IF first THEN <<>> ELSE <<",">>)
       \o QuoteString(ps[i].k) \o <<":">> \o JSONstringify(ps[i].val)
       \o StringifyMembers(ps, i + 1, FALSE)

\* ------------------------------------------------------------------------
\* String helpers
\* ------------------------------------------------------------------------
RECURSIVE TrimStart(_)
TrimStart(s) == IF s # <<>> /\ IsWs(Head(s)) THEN TrimStart(Tail(s)) ELSE s

RECURSIVE TrimEnd(_)
TrimEnd(s) ==
  IF s # <<>> /\ IsWs(s[Len(s)]) THEN TrimEnd(SubSeq(s, 1, Len(s) - 1)) ELSE s

\* String.prototype.trim
Trim(s) == TrimEnd(TrimStart(s))

UpperAtoms == <<"A", "B", "C", "E", "L", "R", "S", "T", "W", "toString", "valueOf">>
LowerAtoms == <<"a", "b", "c", "e", "l", "r", "s", "t", "w", "tostring", "valueof">>

LowerAtom(a) ==
  IF \E i \in 1..Len(UpperAtoms) : UpperAtoms[i] = a
  THEN LowerAtoms[CHOOSE i \in 1..Len(UpperAtoms) : UpperAtoms[i] = a]
  ELSE a

\* String.prototype.toLowerCase
ToLowerCase(s) == [i \in 1..Len(s) |-> LowerAtom(s[i])]

\* ------------------------------------------------------------------------
\* Output formatter (api/format.ts and its later variant)
\* ------------------------------------------------------------------------
RAW == <<"r", "a", "w">>
TABLE == <<"t", "a", "b", "l", "e">>
SINGLE_CELL == <<"s", "i", "n", "g", "l", "e", "_", "c", "e", "l", "l">>
CELL == <<"c", "e", "l", "l">>
DATA == <<"data">>

Variants == {"format_ts", "part_001"}

\* Names every object inherits from Object.prototype: formatMap is an object
\* literal, so formatMap[name] finds them although formatMap does not own them.
ObjectPrototypeKeys ==
  {<<"constructor">>, <<"toString">>, <<"valueOf">>, <<"hasOwnProperty">>,
   <<"__proto__">>}

\* The key a property access uses for a format argument (undefined becomes
\* the string "undefined").
PropertyKey(format) == IF format.t = "str" THEN format.v ELSE <<"undefined">>

\* formatMap[format] of format.ts: the schema hint, an inherited member of
\* Object.prototype, or undefined.
formatMap(format) ==
  LET k == PropertyKey(format) IN
  CASE k = RAW -> "RAW_TEXT"
    [] k = TABLE -> "TABLE_FORMAT"
    [] k = SINGLE_CELL -> "SINGLE_CELL_FORMAT"
    [] k \in ObjectPrototypeKeys -> "Object.prototype member"
    [] OTHER -> "undefined"

\* formatMap[format] of the later variant, whose third key is "cell".
formatMap_part_001(format) ==
  LET k == PropertyKey(format) IN
  CASE k = RAW -> "RAW_TEXT"
    [] k = TABLE -> "TABLE_FORMAT"
    [] k = CELL -> "SINGLE_CELL_FORMAT"
    [] k \in ObjectPrototypeKeys -> "Object.prototype member"
    [] OTHER -> "undefined"

\* getTextFormat: throws CustomFunctions.Error(invalidValue) when the lookup
\* is falsy, otherwise returns what the lookup found.
getTextFormat(format) ==
  LET textFormat == formatMap(format) IN
  [threw |-> textFormat = "undefined", val |-> textFormat]

getTextFormat_part_001(format) ==
  LET textFormat == formatMap_part_001(format) IN
  [threw |-> textFormat = "undefined", val |-> textFormat]

NoResponseContent == <<"No response content">>
defaultResponse == Arr(<<Arr(<<Str(NoResponseContent)>>)>>)

parseTextFormat_NoTypeErrorCatch(content, format) ==
  LET k == PropertyKey(format)
      p == JSONparse(content)
  IN IF k = TABLE
     THEN (IF ~p.ok THEN defaultResponse ELSE GetProp(p.val, DATA))
     ELSE IF k = SINGLE_CELL
     THEN (IF ~p.ok THEN defaultResponse ELSE Arr(<<Arr(<<GetProp(p.val, DATA)>>)>>))
     ELSE Arr(<<Arr(<<Str(content)>>)>>)

\* parseTextFormat of format.ts.  A SyntaxError of JSON.parse and a TypeError
\* of reading .data are both caught and give the fallback grid.
parseTextFormat(content, format) ==
  LET k == PropertyKey(format)
      p == JSONparse(content)
  IN IF k = TABLE
     THEN (IF ~p.ok \/ PropThrows(p.val) THEN defaultResponse
           ELSE GetProp(p.val, DATA))
     ELSE IF k = SINGLE_CELL
     THEN (IF ~p.ok \/ PropThrows(p.val) THEN defaultResponse
           ELSE Arr(<<Arr(<<GetProp(p.val, DATA)>>)>>))
     ELSE Arr(<<Arr(<<Str(content)>>)>>)

parseTextFormat_part_001_Truthy(content, format) ==
  LET k == PropertyKey(format)
      p == JSONparse(content)
  IN IF k = TABLE
     THEN (IF ~p.ok \/ PropThrows(p.val) THEN defaultResponse
           ELSE IF GetProp(p.val, DATA).t \in {"undef", "null"} THEN defaultResponse
           ELSE GetProp(p.val, DATA))
     ELSE IF k = CELL
     THEN (IF ~p.ok \/ PropThrows(p.val) THEN defaultResponse
           ELSE IF Truthy(GetProp(p.val, DATA))
                THEN Arr(<<Arr(<<GetProp(p.val, DATA)>>)>>)
                ELSE defaultResponse)
     ELSE Arr(<<Arr(<<Str(content)>>)>>)

\* parseTextFormat of the later variant: a null or undefined data field of a
\* table, and an undefined data field of a cell, give the fallback grid too.
parseTextFormat_part_001(content, format) ==
  LET k == PropertyKey(format)
      p == JSONparse(content)
  IN IF k = TABLE
     THEN (IF ~p.ok \/ PropThrows(p.val) THEN defaultResponse
           ELSE IF GetProp(p.val, DATA).t \in {"undef", "null"} THEN defaultResponse
           ELSE GetProp(p.val, DATA))
     ELSE IF k = CELL
     THEN (IF ~p.ok \/ PropThrows(p.val) THEN defaultResponse
           ELSE IF GetProp(p.val, DATA).t # "undef"
                THEN Arr(<<Arr(<<GetProp(p.val, DATA)>>)>>)
                ELSE defaultResponse)
     ELSE Arr(<<Arr(<<Str(content)>>)>>)

GetTextFormatOf(variant, format) ==
  IF variant = "format_ts" THEN getTextFormat(format)
  ELSE getTextFormat_part_001(format)

ParseTextFormatOf(variant, content, format) ==
  IF variant = "format_ts" THEN parseTextFormat(content, format)
  ELSE parseTextFormat_part_001(content, format)

\* The name of the single-cell format in each variant.
SingleCellName(variant) == IF variant = "format_ts" THEN SINGLE_CELL ELSE CELL

\* A two-dimensional grid: an array whose elements are arrays.
IsGrid(x) == x.t = "arr" /\ \A i \in 1..Len(x.v) : x.v[i].t = "arr"

\* ------------------------------------------------------------------------
\* The formatter applied to bounded inputs
\* ------------------------------------------------------------------------
\* variant: which formatter module the build contains.
\* fpc .. fResult: one application of parseTextFormat to a chosen content.
\* store: the value under API_KEY_STORAGE_NAME in OfficeRuntime.storage.
\* apiKey: OctagonApiService.apiKey of each service instance.  credOp: the
\* storage operation a credential method is awaiting.  call: the agent call
\* in progress.  http: the requests the current call has issued.
\* sawKey (history): since the current call was entered, the store or the
\* calling instance's apiKey has held a credential.
\* spc, fullText, finalResponse, parseErrorCount, sres: one run of
\* handleStreamedResponse and its result.  nread: lines delivered so far.
\* hist (history): what the stream has delivered so far.
\* session, sKey: sessionStorage and this.apiKey of the session-storage service.
\* khist (history): the last credential operation, kept where switched on.
\* resp (history): the last HTTP response received, kept where switched on.
\* dec: a whole stream given to the decoder, with how it was cut into chunks
\* and what the decode gave.
VARIABLES variant, fpc, fKind, fSrc, fContent, fFormat, fResult,
          store, apiKey, credOp, call, http, sawKey,
          spc, fullText, finalResponse, parseErrorCount, sres, nread, hist,
          session, sKey, khist, resp, dec

fvars == <<fpc, fKind, fSrc, fContent, fFormat, fResult>>
cvars == <<store, apiKey, credOp, call, http, sawKey>>
svars == <<spc, fullText, finalResponse, parseErrorCount, sres, nread, hist, dec>>
kvars == <<session, sKey, khist, resp>>
vars == <<variant, fvars, cvars, svars, kvars>>

SeqsUpTo(S, n) == UNION {[1..m -> S] : m \in 0..n}

CellValues == {Num(1), Num(20), Str(<<"a">>), Str(<<"b", QUOTE>>)}
Rows == {Arr(r) : r \in SeqsUpTo(CellValues, MaxCols)}
Grids == {Arr(g) : g \in SeqsUpTo(Rows, MaxRows)}

DataObj(x) == Obj(<<Prop(DATA, x)>>)

\* Responses that follow the table schema and the single-cell schema.
TableValues == {DataObj(g) : g \in Grids}
CellResponses == {DataObj(c) : c \in CellValues \cup {Num(0), Str(<<>>)}}

\* Valid JSON without a data field.
NoDataValues ==
  {Obj(<<>>), Obj(<<Prop(<<"x">>, Num(1))>>), Arr(<<Num(1)>>), Num(5),
   Str(<<"a">>), Bool(TRUE)}

\* Valid JSON whose data field is not a grid.
OddDataValues ==
  {DataObj(Num(5)), DataObj(Str(<<"a">>)), DataObj(Null),
   DataObj(Arr(<<Num(1), Num(2)>>)), DataObj(Obj(<<>>))}

SrcValues == TableValues \cup CellResponses \cup NoDataValues \cup OddDataValues \cup {Null}

\* Texts that are not JSON.
MalformedContents ==
  {<<>>, <<"x">>, NoResponseContent, <<"{">>, <<"[", "1", ",", "]">>,
   <<"{", QUOTE, "data", QUOTE, "}">>, <<"0", "1">>, <<"{", "}", "{", "}">>,
   <<QUOTE, "a">>, <<"{", QUOTE, "data", QUOTE, ":", "1", ",", "}">>,
   <<QUOTE, BSLASH, "a", QUOTE>>, <<"[", "1", " ", "2", "]">>}

FormatArgs == {Str(RAW), Str(TABLE), Str(SINGLE_CELL), Str(CELL)}


\* The upstream model answers with the JSON encoding of a value.
FEncode(x) ==
  /\ fpc = "choose"
  /\ fpc' = "content"
  /\ fKind' = IF x = Null THEN "null" ELSE "encoded"
  /\ fSrc' = x
  /\ fContent' = JSONstringify(x)
  /\ UNCHANGED <<fFormat, fResult, variant, cvars, svars, kvars>>

\* The encoding of an object, array or string cut short is not JSON.
FTruncate(n) ==
  /\ fpc = "content"
  /\ fKind = "encoded"
  /\ fSrc.t \in {"obj", "arr", "str"}
  /\ n < Len(fContent)
  /\ fKind' = "truncated"
  /\ fSrc' = Undefined
  /\ fContent' = SubSeq(fContent, 1, n)
  /\ UNCHANGED <<fpc, fFormat, fResult, variant, cvars, svars, kvars>>

\* The upstream model answers with text that is not JSON.
FMalformed(c) ==
  /\ fpc = "choose"
  /\ fpc' = "content"
  /\ fKind' = "malformed"
  /\ fContent' = c
  /\ UNCHANGED <<fSrc, fFormat, fResult, variant, cvars, svars, kvars>>

\* parseTextFormat(content, format)
FParse(f) ==
  /\ fpc = "content"
  /\ fpc' = "parsed"
  /\ fFormat' = f
  /\ fResult' = ParseTextFormatOf(variant, fContent, f)
  /\ UNCHANGED <<fKind, fSrc, fContent, variant, cvars, svars, kvars>>


\* ------------------------------------------------------------------------
\* Agent client over OfficeRuntime.storage (api/octagonAPIExtension.ts)
\* ------------------------------------------------------------------------

NoError == [cls |-> "none", code |-> "none", msg |-> "none", status |-> 0, detail |-> <<>>]
Error(m) == [cls |-> "Error", code |-> "none", msg |-> m, status |-> 0, detail |-> <<>>]
HttpError(st, d) == [cls |-> "Error", code |-> "none", msg |-> "HTTP", status |-> st, detail |-> d]
InvalidFormatError ==
  [cls |-> "CustomFunctions.Error", code |-> "invalidValue", msg |-> "Invalid format",
   status |-> 0, detail |-> <<>>]

InvalidPromptMsg == "Please provide a valid prompt"
NotAuthenticatedMsg == "Not authenticated. Please set your API key first."
NoApiKeyMsg == "No API key provided"
ProcessFailedMsg == "Failed to process agent response"
FetchFailedMsg == "Failed to fetch"
UnknownError == <<"Unknown error">>

NoOutcome == [kind |-> "none", val |-> Undefined, err |-> NoError]
Returned(x) == [kind |-> "returned", val |-> x, err |-> NoError]
Thrown(e) == [kind |-> "thrown", val |-> Undefined, err |-> e]

\* String(x), as string concatenation and template literals apply it.
RECURSIVE ToStringJS(_), JoinElements(_, _)
ToStringJS(x) ==
  CASE x.t = "str" -> x.v
    [] x.t = "num" -> NatToAtoms(x.v)
    [] x.t = "bool" -> IF x.v THEN <<"true">> ELSE <<"false">>
    [] x.t = "null" -> <<"null">>
    [] x.t = "undef" -> <<"undefined">>
    [] x.t = "arr" -> JoinElements(x.v, 1)
    [] OTHER -> <<"[object Object]">>

JoinElements(xs, i) ==
  IF i > Len(xs) THEN <<>>
  ELSE (IF i > 1 THEN <<",">> ELSE <<>>)
       \o (IF xs[i].t \in {"null", "undef"} THEN <<>> ELSE ToStringJS(xs[i]))
       \o JoinElements(xs, i + 1)

TYPE == <<"type">>
OUTPUT == <<"output">>
CONTENT == <<"content">>
TEXT == <<"text">>
DETAIL == <<"detail">>
IDKEY == <<"id">>
MODELKEY == <<"model">>

\* The text of the output_text parts of one message item, appended to acc.
\* threw: a part is null, so reading its type throws.
RECURSIVE MessageText(_, _, _)
MessageText(parts, i, acc) ==
  IF i > Len(parts) THEN [threw |-> FALSE, content |-> acc]
  ELSE IF PropThrows(parts[i]) THEN [threw |-> TRUE, content |-> acc]
  ELSE IF GetProp(parts[i], TYPE) # Str(<<"output_text">>)
       THEN MessageText(parts, i + 1, acc)
  ELSE MessageText(parts, i + 1, acc \o ToStringJS(GetProp(parts[i], TEXT)))

RECURSIVE OutputText(_, _, _)
OutputText(items, i, acc) ==
  IF i > Len(items) THEN [threw |-> FALSE, content |-> acc]
  ELSE IF PropThrows(items[i]) THEN [threw |-> TRUE, content |-> acc]
  ELSE IF GetProp(items[i], TYPE) # Str(<<"message">>)
       THEN OutputText(items, i + 1, acc)
  ELSE IF ~Truthy(GetProp(items[i], CONTENT)) \/ GetProp(items[i], CONTENT).t # "arr"
       THEN OutputText(items, i + 1, acc)
  ELSE LET m == MessageText(GetProp(items[i], CONTENT).v, 1, acc) IN
       IF m.threw THEN m ELSE OutputText(items, i + 1, m.content)

\* parseAgentResponse: body.decodable is whether response.json() resolves.
\* Every exception inside is rethrown as "Failed to process agent response".
parseAgentResponse(body) ==
  IF ~body.decodable \/ PropThrows(body.json)
  THEN [threw |-> TRUE, content |-> <<>>, id |-> Undefined, model |-> Undefined]
  ELSE LET data == body.json
           output == GetProp(data, OUTPUT)
       IN IF ~Truthy(output) \/ output.t # "arr"
          THEN [threw |-> FALSE, content |-> <<>>,
                id |-> GetProp(data, IDKEY), model |-> GetProp(data, MODELKEY)]
          ELSE LET r == OutputText(output.v, 1, <<>>) IN
               [threw |-> r.threw, content |-> r.content,
                id |-> GetProp(data, IDKEY), model |-> GetProp(data, MODELKEY)]

\* handleApiError: the error thrown for a response that is not ok.
handleApiError(status, body) ==
  LET data == IF body.decodable THEN body.json ELSE Obj(<<Prop(DETAIL, Str(UnknownError))>>)
      detail == IF PropThrows(data) THEN Undefined ELSE GetProp(data, DETAIL)
      errorMessage == IF detail.t \in {"undef", "null"} THEN Str(UnknownError) ELSE detail
  IN HttpError(status, ToStringJS(errorMessage))

\* Inputs of the agent client
BlankPrompts == {<<>>, <<SPACE, NEWLINE>>}
Prompts == BlankPrompts \cup {<<"a">>, <<SPACE, "a", SPACE>>}

FormatInputs ==
  {Undefined, Str(<<>>), Str(RAW), Str(TABLE), Str(SINGLE_CELL), Str(CELL),
   Str(<<"R", "A", "W">>), Str(<<"T", "a", "b", "l", "e">>), Str(<<"x", "m", "l">>),
   Str(<<"constructor">>), Str(<<"toString">>)}

KeyInputs == {<<>>, <<SPACE>>, <<"k1">>, <<SPACE, "k2", SPACE>>}
StoredKeys == {Null, Str(<<"k1">>), Str(<<"k2">>)}

Statuses == {200, 401}
IsOk(status) == status >= 200 /\ status <= 299

TextPart(c) == Obj(<<Prop(TYPE, Str(<<"output_text">>)), Prop(TEXT, Str(c))>>)
MessageItem(parts) == Obj(<<Prop(TYPE, Str(<<"message">>)), Prop(CONTENT, Arr(parts))>>)
MkBody(items) ==
  Obj(<<Prop(IDKEY, Str(<<"resp_1">>)), Prop(MODELKEY, Str(<<"octagon-agent">>)),
        Prop(OUTPUT, Arr(items))>>)
Decoded(x) == [decodable |-> TRUE, json |-> x]
Undecodable == [decodable |-> FALSE, json |-> Undefined]

CallValues ==
  {DataObj(Arr(<<Arr(<<Num(1), Str(<<"a">>)>>)>>)), DataObj(Num(1)), Obj(<<>>),
   DataObj(Num(5)), DataObj(Arr(<<Num(1)>>)), DataObj(Null), Null}
CallContents == {JSONstringify(x) : x \in CallValues} \cup {<<>>, <<"x">>}

OkBodies ==
  {Decoded(MkBody(<<MessageItem(<<TextPart(c)>>)>>)) : c \in CallContents}
  \cup {Decoded(Null), Decoded(Obj(<<Prop(IDKEY, Str(<<"resp_1">>))>>)), Undecodable,
        Decoded(MkBody(<<Null>>))}
ErrBodies ==
  {Decoded(Obj(<<Prop(DETAIL, Str(<<"Invalid API key">>))>>)), Decoded(Obj(<<>>)),
   Undecodable}

\* functions.ts and taskpane.ts each construct their own OctagonApiService;
\* both use the same OfficeRuntime.storage.
Instances == {"functions", "taskpane"}

\* History of the credential operations.  Of the last set or clear: the
\* operation, instance and argument, whether a credential was stored when it
\* began (had), whether its storage operations worked (ok) and whether it
\* has returned (done).  Of the last isAuthenticated() since then: whether it
\* has returned (chk), the instance, whether its storage reads worked (cok)
\* and its answer (ret).  threw: an operation threw to its caller; sound:
\* every storage operation so far has worked.
NoHistory ==
  [on |-> FALSE, svc |-> "none", op |-> "none", inst |-> "none", arg |-> <<>>,
   had |-> FALSE, ok |-> TRUE, done |-> TRUE, threw |-> FALSE, sound |-> TRUE,
   chk |-> FALSE, cinst |-> "none", cok |-> TRUE, ret |-> Undefined]
Started(h, op, inst, arg, had) ==
  IF h.on THEN [h EXCEPT !.op = op, !.inst = inst, !.arg = arg, !.had = had, !.ok = TRUE,
                         !.done = FALSE, !.chk = FALSE, !.cinst = "none", !.cok = TRUE,
                         !.ret = Undefined]
  ELSE h
StorageDid(h, ok) ==
  IF h.on THEN [h EXCEPT !.ok = h.ok /\ ok, !.sound = h.sound /\ ok] ELSE h
Ended(h, threw) == IF h.on THEN [h EXCEPT !.done = TRUE, !.threw = h.threw \/ threw] ELSE h
Asked(h, inst) ==
  IF h.on THEN [h EXCEPT !.chk = FALSE, !.cinst = inst, !.cok = TRUE, !.ret = Undefined] ELSE h
ReadDid(h, ok) ==
  IF h.on THEN [h EXCEPT !.cok = h.cok /\ ok, !.sound = h.sound /\ ok] ELSE h
Answered(h, ret, threw) ==
  IF h.on THEN [h EXCEPT !.chk = TRUE, !.ret = ret, !.threw = h.threw \/ threw] ELSE h

\* History of the HTTP responses: the last one received, by which call (0:
\* the streaming service, -1: none yet), its status and its body.
NoResponse == [on |-> FALSE, call |-> -1, status |-> 0, body |-> Undefined]
Received(h, c, status, body) ==
  IF h.on THEN [h EXCEPT !.call = c, !.status = status, !.body = body] ELSE h

\* Agent calls that can be in progress at the same time.
Calls == {1, 2}

IdleCall ==
  [pc |-> "idle", inst |-> "functions", via |-> "callAgent", prompt |-> <<>>, formatArg |-> Undefined,
   format |-> Undefined, authed |-> FALSE, content |-> <<>>, out |-> NoOutcome]
NoCredOp == [op |-> "none", key |-> Null]

CInit ==
  /\ store \in StoredKeys
  /\ apiKey = [i \in Instances |-> Null]
  /\ credOp = NoCredOp
  /\ call = [c \in Calls |-> IdleCall]
  /\ http = <<>>
  /\ sawKey = [c \in Calls |-> FALSE]

Wrap_Everything(via, e) ==
  IF via = "OCTAGON_AGENT"
  THEN [e EXCEPT !.cls = "CustomFunctions.Error", !.code = "notAvailable"]
  ELSE e

\* OCTAGON_AGENT's catch: a CustomFunctions.Error is rethrown as it is, any
\* other error becomes CustomFunctions.Error(notAvailable, message).
Wrap(via, e) ==
  IF via = "OCTAGON_AGENT" /\ e.cls # "CustomFunctions.Error"
  THEN [e EXCEPT !.cls = "CustomFunctions.Error", !.code = "notAvailable"]
  ELSE e

\* The call ends with outcome o; content is the text handed to parseTextFormat.
FinishWith(c, o, content) ==
  call' = [call EXCEPT ![c].pc = "done", ![c].content = content,
                       ![c].out = IF o.kind = "thrown" THEN Thrown(Wrap(call[c].via, o.err)) ELSE o]

Finish(c, o) == FinishWith(c, o, <<>>)

\* callAgent up to its first await: the prompt check, then the storage read
\* of isAuthenticated -> loadApiKey -> getStoredApiKey is started.
Enter_NoTrim(inst, via, prompt, formatArg, format) ==
  IF prompt = <<>>
  THEN [pc |-> "done", inst |-> inst, via |-> via, prompt |-> prompt,
        formatArg |-> formatArg, format |-> format, authed |-> FALSE,
        content |-> <<>>, out |-> Thrown(Wrap(via, Error(InvalidPromptMsg)))]
  ELSE [pc |-> "getItem", inst |-> inst, via |-> via, prompt |-> prompt,
        formatArg |-> formatArg, format |-> format, authed |-> FALSE,
        content |-> <<>>, out |-> NoOutcome]

Enter(inst, via, prompt, formatArg, format) ==
  IF prompt = <<>> \/ Trim(prompt) = <<>>
  THEN [pc |-> "done", inst |-> inst, via |-> via, prompt |-> prompt,
        formatArg |-> formatArg, format |-> format, authed |-> FALSE,
        content |-> <<>>, out |-> Thrown(Wrap(via, Error(InvalidPromptMsg)))]
  ELSE [pc |-> "getItem", inst |-> inst, via |-> via, prompt |-> prompt,
        formatArg |-> formatArg, format |-> format, authed |-> FALSE,
        content |-> <<>>, out |-> NoOutcome]

\* A direct call of OctagonApiService.callAgent(model, prompt, format).
callAgent(c, prompt, format) ==
  /\ call[c].pc = "idle"
  /\ call' = [call EXCEPT ![c] = Enter("functions", "callAgent", prompt, format, format)]
  /\ sawKey' = [sawKey EXCEPT ![c] = (store # Null)]
  /\ UNCHANGED <<store, apiKey, credOp, http, variant, fvars, svars, kvars>>

OCTAGON_AGENT_NoLower(c, prompt, format) ==
  /\ call[c].pc = "idle"
  /\ call' = [call EXCEPT ![c] = Enter("functions", "OCTAGON_AGENT", prompt, format,
                   IF Truthy(format) THEN format ELSE Str(TABLE))]
  /\ sawKey' = [sawKey EXCEPT ![c] = (store # Null)]
  /\ UNCHANGED <<store, apiKey, credOp, http, variant, fvars, svars, kvars>>

\* The custom function: agentFormat = format ? format.toLowerCase() : "table",
\* then callAgent on the instance functions.ts constructs.
OCTAGON_AGENT(c, prompt, format) ==
  /\ call[c].pc = "idle"
  /\ call' = [call EXCEPT ![c] = Enter("functions", "OCTAGON_AGENT", prompt, format,
                   IF Truthy(format) THEN Str(ToLowerCase(format.v)) ELSE Str(TABLE))]
  /\ sawKey' = [sawKey EXCEPT ![c] = (store # Null)]
  /\ UNCHANGED <<store, apiKey, credOp, http, variant, fvars, svars, kvars>>

\* The caller has taken the result; the next call can start.
RequestsOf(c) == SelectSeq(http, LAMBDA r : r.call = c)

callReturns(c) ==
  /\ call[c].pc = "done"
  /\ call' = [call EXCEPT ![c] = IdleCall]
  /\ http' = SelectSeq(http, LAMBDA r : r.call # c)
  /\ sawKey' = [sawKey EXCEPT ![c] = FALSE]
  /\ UNCHANGED <<store, apiKey, credOp, variant, fvars, svars, kvars>>

\* isAuthenticated() called on its own (the task pane asks whether a key is
\* set): up to the storage read of loadApiKey -> getStoredApiKey.
isAuthenticatedCalled(c, inst) ==
  /\ call[c].pc = "idle"
  /\ call' = [call EXCEPT ![c] = [IdleCall EXCEPT !.pc = "getItem", !.inst = inst,
                                                  !.via = "isAuthenticated"]]
  /\ khist' = Asked(khist, inst)
  /\ UNCHANGED <<store, apiKey, credOp, http, sawKey, variant, fvars, svars, session, sKey, resp>>

\* getStoredApiKey returns (a failed read gives null) and loadApiKey assigns
\* this.apiKey.
loadApiKey_RemovesUnreadable(c, readOk) ==
  /\ call[c].pc = "getItem"
  /\ LET storedKey == IF readOk /\ store.t = "str" THEN store ELSE Null IN
     apiKey' = [apiKey EXCEPT ![call[c].inst] = IF Truthy(storedKey) THEN storedKey ELSE Null]
  /\ call' = [call EXCEPT ![c].pc = "isAuthenticated"]
  /\ khist' = ReadDid(khist, readOk)
  /\ store' = IF readOk THEN store ELSE Null
  /\ UNCHANGED <<credOp, http, sawKey, variant, fvars, svars, session, sKey, resp>>

loadApiKey(c, readOk) ==
  /\ call[c].pc = "getItem"
  /\ LET storedKey == IF readOk /\ store.t = "str" THEN store ELSE Null IN
     apiKey' = [apiKey EXCEPT ![call[c].inst] = IF Truthy(storedKey) THEN storedKey ELSE Null]
  /\ call' = [call EXCEPT ![c].pc = "isAuthenticated"]
  /\ khist' = ReadDid(khist, readOk)
  /\ UNCHANGED <<store, credOp, http, sawKey, variant, fvars, svars, session, sKey, resp>>

isAuthenticated_AlwaysTrue(c) ==
  /\ call[c].pc = "isAuthenticated"
  /\ call' = IF call[c].via = "isAuthenticated"
             THEN [call EXCEPT ![c].pc = "done", ![c].authed = TRUE,
                               ![c].out = Returned(Bool(TRUE))]
             ELSE [call EXCEPT ![c].pc = "authReturned", ![c].authed = TRUE]
  /\ khist' = Answered(khist, Bool(TRUE), FALSE)
  /\ UNCHANGED <<store, apiKey, credOp, http, sawKey, variant, fvars, svars, session, sKey, resp>>

\* isAuthenticated resumes after loadApiKey and returns !!this.apiKey, to
\* callAgent or to a caller of isAuthenticated itself.
isAuthenticated(c) ==
  /\ call[c].pc = "isAuthenticated"
  /\ LET authed == Truthy(apiKey[call[c].inst]) IN
     /\ call' = IF call[c].via = "isAuthenticated"
                THEN [call EXCEPT ![c].pc = "done", ![c].authed = authed,
                                  ![c].out = Returned(Bool(authed))]
                ELSE [call EXCEPT ![c].pc = "authReturned", ![c].authed = authed]
     /\ khist' = Answered(khist, Bool(authed), FALSE)
  /\ UNCHANGED <<store, apiKey, credOp, http, sawKey, variant, fvars, svars, session, sKey, resp>>

createResponse_SendsWithoutToken(c) ==
  /\ call[c].pc = "authReturned"
  /\ LET tf == GetTextFormatOf(variant, call[c].format) IN
     IF ~call[c].authed
     THEN Finish(c, Thrown(Error(NotAuthenticatedMsg))) /\ http' = http
     ELSE IF tf.threw
     THEN Finish(c, Thrown(InvalidFormatError)) /\ http' = http
     ELSE /\ call' = [call EXCEPT ![c].pc = "fetch"]
          /\ http' = Append(http, [call |-> c, token |-> apiKey[call[c].inst],
                                   input |-> call[c].prompt, text |-> tf.val])
  /\ UNCHANGED <<store, apiKey, credOp, sawKey, variant, fvars, svars, kvars>>

createResponse_RequestsFirst(c) ==
  /\ call[c].pc = "authReturned"
  /\ LET tf == GetTextFormatOf(variant, call[c].format) IN
     IF ~call[c].authed
     THEN Finish(c, Thrown(Error(NotAuthenticatedMsg))) /\ http' = http
     ELSE IF ~Truthy(apiKey[call[c].inst])
     THEN Finish(c, Thrown(Error(NoApiKeyMsg))) /\ http' = http
     ELSE IF tf.threw
     THEN /\ Finish(c, Thrown(InvalidFormatError))
          /\ http' = Append(http, [call |-> c, token |-> apiKey[call[c].inst],
                                   input |-> call[c].prompt, text |-> Undefined])
     ELSE /\ call' = [call EXCEPT ![c].pc = "fetch"]
          /\ http' = Append(http, [call |-> c, token |-> apiKey[call[c].inst],
                                   input |-> call[c].prompt, text |-> tf.val])
  /\ UNCHANGED <<store, apiKey, credOp, sawKey, variant, fvars, svars, kvars>>

\* callAgent resumes: the authentication result, getTextFormat(format), then
\* createResponse up to fetch.
createResponse(c) ==
  /\ call[c].pc = "authReturned"
  /\ LET tf == GetTextFormatOf(variant, call[c].format) IN
     IF ~call[c].authed
     THEN Finish(c, Thrown(Error(NotAuthenticatedMsg))) /\ http' = http
     ELSE IF tf.threw
     THEN Finish(c, Thrown(InvalidFormatError)) /\ http' = http
     ELSE IF ~Truthy(apiKey[call[c].inst])
     THEN Finish(c, Thrown(Error(NoApiKeyMsg))) /\ http' = http
     ELSE /\ call' = [call EXCEPT ![c].pc = "fetch"]
          /\ http' = Append(http, [call |-> c, token |-> apiKey[call[c].inst],
                                   input |-> call[c].prompt, text |-> tf.val])
  /\ UNCHANGED <<store, apiKey, credOp, sawKey, variant, fvars, svars, kvars>>

\* The response arrives: handleApiError when it is not ok, otherwise
\* parseAgentResponse and parseTextFormat.
fetchResolves(c, status, body) ==
  /\ call[c].pc = "fetch"
  /\ LET r == parseAgentResponse(body) IN
     IF ~IsOk(status) THEN Finish(c, Thrown(handleApiError(status, body)))
     ELSE IF r.threw THEN Finish(c, Thrown(Error(ProcessFailedMsg)))
     ELSE LET content == IF r.content # <<>> THEN r.content ELSE NoResponseContent IN
          FinishWith(c, Returned(ParseTextFormatOf(variant, content, call[c].format)), content)
  /\ resp' = Received(resp, c, status, body)
  /\ UNCHANGED <<store, apiKey, credOp, http, sawKey, variant, fvars, svars, session, sKey, khist>>

\* fetch rejects (no connection).
fetchRejects(c) ==
  /\ call[c].pc = "fetch"
  /\ Finish(c, Thrown(Error(FetchFailedMsg)))
  /\ UNCHANGED <<store, apiKey, credOp, http, sawKey, variant, fvars, svars, kvars>>

CallActive(c) == call[c].pc \notin {"idle", "done"}

\* setApiKey up to its await: an empty trimmed key goes to clearApiKey.
setApiKey(inst, key) ==
  /\ credOp = NoCredOp
  /\ LET trimmedKey == IF Trim(key) # <<>> THEN Str(Trim(key)) ELSE Null IN
     /\ apiKey' = [apiKey EXCEPT ![inst] = trimmedKey]
     /\ credOp' = IF trimmedKey = Null THEN [op |-> "removeItem", key |-> Null]
                  ELSE [op |-> "setItem", key |-> trimmedKey]
     /\ sawKey' = [c \in Calls |->
                     sawKey[c] \/ (CallActive(c) /\ inst = call[c].inst /\ trimmedKey # Null)]
  /\ khist' = Started(khist, "set", inst, key, store # Null)
  /\ UNCHANGED <<store, call, http, variant, fvars, svars, session, sKey, resp>>

\* clearApiKey up to its await.
clearApiKey(inst) ==
  /\ credOp = NoCredOp
  /\ apiKey' = [apiKey EXCEPT ![inst] = Null]
  /\ credOp' = [op |-> "removeItem", key |-> Null]
  /\ khist' = Started(khist, "clear", inst, <<>>, store # Null)
  /\ UNCHANGED <<store, call, http, sawKey, variant, fvars, svars, session, sKey, resp>>

\* The pending OfficeRuntime.storage operation completes or throws.
storageCompletes(ok) ==
  /\ credOp # NoCredOp
  /\ store' = IF ~ok THEN store
              ELSE IF credOp.op = "setItem" THEN credOp.key ELSE Null
  /\ credOp' = NoCredOp
  /\ sawKey' = [c \in Calls |-> sawKey[c] \/ (CallActive(c) /\ store' # Null)]
  /\ khist' = Ended(StorageDid(khist, ok), FALSE)
  /\ UNCHANGED <<apiKey, call, http, variant, fvars, svars, session, sKey, resp>>

\* No formatter application in progress.
FIdle ==
  /\ fpc = "choose" /\ fKind = "none" /\ fSrc = Undefined /\ fContent = <<>>
  /\ fFormat = Undefined /\ fResult = Undefined

\* No agent call and no credential operation in progress, nothing stored.
CIdle ==
  /\ store = Null /\ apiKey = [i \in Instances |-> Null] /\ credOp = NoCredOp
  /\ call = [c \in Calls |-> IdleCall] /\ http = <<>> /\ sawKey = [c \in Calls |-> FALSE]

\* ------------------------------------------------------------------------
\* Session-storage service (api/octagonApi.ts): credential operations
\* ------------------------------------------------------------------------
\* sessionStorage holds two items: direct is 'octagon_api_key', cached is
\* 'CachedSessionSettings'; an absent item reads as null.
NoSession == [direct |-> Null, cached |-> Null]
OCTAGON_API_KEY == <<"octagon_api_key">>

\* delete sessionData.octagon_api_key
DeleteProp(ps, k) == SelectSeq(ps, LAMBDA q : q.k # k)

\* In the operators below throwsAt is the number of the sessionStorage call
\* that throws, counted in the order the operation makes them (0: none
\* does).  Their result holds the store afterwards (ss), whether a storage
\* call failed and whether the operation threw to its caller.
SaveResult(ss, failed, threw) == [ss |-> ss, failed |-> failed, threw |-> threw]

\* The blob written back for parsed settings data after the field is set.
WithKey(data, key) ==
  IF data.t = "obj" THEN Str(JSONstringify(Obj(SetProp(data.v, OCTAGON_API_KEY, Str(key)))))
  ELSE Str(JSONstringify(data))

\* Variant of saveApiKey that writes the direct item only.
saveApiKey_DirectOnly(ss, key, throwsAt) ==
  IF throwsAt = 1 THEN SaveResult(ss, TRUE, FALSE)
  ELSE SaveResult([ss EXCEPT !.direct = Str(key)], throwsAt \in {2, 3}, FALSE)

\* saveApiKey without its outer try/catch.
saveApiKey_NoCatch(ss, key, throwsAt) ==
  LET s1 == [ss EXCEPT !.direct = Str(key)]
      sessionData == JSONparse(s1.cached.v)
  IN IF throwsAt = 1 THEN SaveResult(ss, TRUE, TRUE)
     ELSE IF throwsAt = 2 THEN SaveResult(s1, TRUE, FALSE)
     ELSE IF Truthy(s1.cached)
     THEN (IF ~sessionData.ok \/ sessionData.val.t \notin {"obj", "arr"}
           THEN SaveResult(s1, FALSE, FALSE)
           ELSE IF throwsAt = 3 THEN SaveResult(s1, TRUE, FALSE)
           ELSE SaveResult([s1 EXCEPT !.cached = WithKey(sessionData.val, key)], FALSE, FALSE))
     ELSE IF throwsAt = 3 THEN SaveResult(s1, TRUE, FALSE)
     ELSE SaveResult([s1 EXCEPT !.cached = WithKey(Obj(<<>>), key)], FALSE, FALSE)

\* saveApiKey: the direct item, then the octagon_api_key field of the cached
\* settings (created when absent or empty).  A throw of the first setItem is
\* caught by the outer catch; in the inner try a failed read or write, a blob
\* that does not parse and a parsed value that takes no property (null or a
\* primitive, a TypeError) are caught and the blob is left as it is.
saveApiKey(ss, key, throwsAt) ==
  LET s1 == [ss EXCEPT !.direct = Str(key)]
      sessionData == JSONparse(s1.cached.v)
  IN IF throwsAt = 1 THEN SaveResult(ss, TRUE, FALSE)
     ELSE IF throwsAt = 2 THEN SaveResult(s1, TRUE, FALSE)
     ELSE IF Truthy(s1.cached)
     THEN (IF ~sessionData.ok \/ sessionData.val.t \notin {"obj", "arr"}
           THEN SaveResult(s1, FALSE, FALSE)
           ELSE IF throwsAt = 3 THEN SaveResult(s1, TRUE, FALSE)
           ELSE SaveResult([s1 EXCEPT !.cached = WithKey(sessionData.val, key)], FALSE, FALSE))
     ELSE IF throwsAt = 3 THEN SaveResult(s1, TRUE, FALSE)
     ELSE SaveResult([s1 EXCEPT !.cached = WithKey(Obj(<<>>), key)], FALSE, FALSE)

\* The blob written back for parsed settings data after the field is deleted.
WithoutKey(data) ==
  IF data.t = "obj" THEN Str(JSONstringify(Obj(DeleteProp(data.v, OCTAGON_API_KEY))))
  ELSE Str(JSONstringify(data))

\* The storage part of clearApiKey that leaves the cached settings alone.
clearStored_DirectOnly(ss, throwsAt) ==
  IF throwsAt = 1 THEN SaveResult(ss, TRUE, FALSE)
  ELSE SaveResult([ss EXCEPT !.direct = Null], throwsAt \in {2, 3}, FALSE)

\* The storage part of clearApiKey: removeItem of the direct item, then the
\* field is deleted from the cached settings when they parse to a truthy
\* value.  Every throw is caught.
clearStored(ss, throwsAt) ==
  LET s1 == [ss EXCEPT !.direct = Null]
      sessionData == JSONparse(s1.cached.v)
  IN IF throwsAt = 1 THEN SaveResult(ss, TRUE, FALSE)
     ELSE IF throwsAt = 2 THEN SaveResult(s1, TRUE, FALSE)
     ELSE IF ~Truthy(s1.cached) \/ ~sessionData.ok \/ ~Truthy(sessionData.val)
     THEN SaveResult(s1, FALSE, FALSE)
     ELSE IF throwsAt = 3 THEN SaveResult(s1, TRUE, FALSE)
     ELSE SaveResult([s1 EXCEPT !.cached = WithoutKey(sessionData.val)], FALSE, FALSE)

LoadResult(key, failed) == [key |-> key, failed |-> failed]

\* loadApiKey: the new this.apiKey.  The cached settings are tried first,
\* then the direct item; when neither gives a key, or a read throws,
\* this.apiKey is left as it was.
loadStored(ss, key, throwsAt) ==
  LET sessionData == JSONparse(ss.cached.v)
      fromCached == IF Truthy(ss.cached) /\ sessionData.ok /\ Truthy(sessionData.val)
                    THEN GetProp(sessionData.val, OCTAGON_API_KEY) ELSE Undefined
  IN IF throwsAt = 1 THEN LoadResult(key, TRUE)
     ELSE IF Truthy(fromCached) THEN LoadResult(fromCached, FALSE)
     ELSE IF throwsAt = 2 THEN LoadResult(key, TRUE)
     ELSE IF Truthy(ss.direct) THEN LoadResult(ss.direct, FALSE)
     ELSE LoadResult(key, FALSE)

\* A credential can be read from the store: the one loadApiKey would find.
StoredCredential(ss) == loadStored(ss, Null, 0).key
HoldsCredential(ss) == ss.direct # Null \/ StoredCredential(ss) # Null

\* checkForStoredApiKey: true for a truthy octagon_api_key field of the
\* cached settings, else for a truthy direct item; settings that do not
\* parse throw into the catch and the answer is false.
checkForStoredApiKey(ss) ==
  LET sessionData == JSONparse(ss.cached.v) IN
  IF Truthy(ss.cached) /\ ~sessionData.ok THEN FALSE
  ELSE IF Truthy(ss.cached) /\ Truthy(sessionData.val)
          /\ Truthy(GetProp(sessionData.val, OCTAGON_API_KEY)) THEN TRUE
  ELSE Truthy(ss.direct)

\* What isAuthenticated() of the instance answers in this state.
AuthenticatedNow(inst) ==
  LET key == IF ~Truthy(sKey[inst]) THEN loadStored(session, sKey[inst], 0).key
             ELSE sKey[inst]
  IN Truthy(key) /\ key.t = "str" /\ Trim(key.v) # <<>>

\* Stored settings a session can start with: nothing, settings of another
\* feature, and blobs that are not a JSON object.
InitSessions ==
  {NoSession,
   [direct |-> Null, cached |-> Str(JSONstringify(Obj(<<Prop(<<"theme">>, Str(<<"dark">>))>>)))],
   [direct |-> Null, cached |-> Str(<<"{">>)],
   [direct |-> Null, cached |-> Str(<<"null">>)]}
ThrowPoints == 0..3

\* setApiKey(apiKey): this.apiKey = apiKey, then saveApiKey(apiKey).
setApiKey_session(inst, key, throwsAt) ==
  LET r == saveApiKey(session, key, throwsAt) IN
  /\ sKey' = [sKey EXCEPT ![inst] = Str(key)]
  /\ session' = r.ss
  /\ khist' = Ended(StorageDid(Started(khist, "set", inst, key, HoldsCredential(session)),
                               ~r.failed), r.threw)
  /\ UNCHANGED <<resp, variant, fvars, cvars, svars>>

\* clearApiKey(): this.apiKey = null, then the stored items are cleared.
clearApiKey_session(inst, throwsAt) ==
  LET r == clearStored(session, throwsAt) IN
  /\ sKey' = [sKey EXCEPT ![inst] = Null]
  /\ session' = r.ss
  /\ khist' = Ended(StorageDid(Started(khist, "clear", inst, <<>>, HoldsCredential(session)),
                               ~r.failed), r.threw)
  /\ UNCHANGED <<resp, variant, fvars, cvars, svars>>

\* isAuthenticated(): loadApiKey() only when this.apiKey is falsy, then
\* !!this.apiKey && this.apiKey.trim() !== '' (trim of a key that is not a
\* string throws).
isAuthenticated_session(inst, throwsAt) ==
  LET r == IF ~Truthy(sKey[inst]) THEN loadStored(session, sKey[inst], throwsAt)
           ELSE LoadResult(sKey[inst], FALSE)
      key == r.key
  IN /\ sKey' = [sKey EXCEPT ![inst] = key]
     /\ khist' = Answered(ReadDid(Asked(khist, inst), ~r.failed),
                          IF Truthy(key) /\ key.t = "str" THEN Bool(Trim(key.v) # <<>>)
                          ELSE Bool(FALSE),
                          Truthy(key) /\ key.t # "str")
     /\ UNCHANGED <<session, resp, variant, fvars, cvars, svars>>

\* No credential operation has been recorded, the session store is empty.
KIdle ==
  /\ khist = NoHistory /\ resp = NoResponse
  /\ session = NoSession /\ sKey = [i \in Instances |-> Null]

\* ------------------------------------------------------------------------
\* Streamed-response decoder (api/octagonApi.ts, handleStreamedResponse)
\* ------------------------------------------------------------------------
DataPrefix == <<"data:", SPACE>>
DoneMarker == <<"[DONE]">>

StartsWith(s, pre) == Len(s) >= Len(pre) /\ SubSeq(s, 1, Len(pre)) = pre

\* The position of the first newline of c at or after i, Len(c) + 1 if none.
NextNewline(c, i) ==
  LET at == {j \in i..Len(c) : c[j] = NEWLINE} IN
  IF at = {} THEN Len(c) + 1 ELSE CHOOSE j \in at : \A m \in at : j <= m

\* chunk.split('\n'), from position i: the pieces between the newlines, the
\* piece after the last newline included (empty when c ends with one).
RECURSIVE SplitLines(_, _)
SplitLines(c, i) ==
  LET j == NextNewline(c, i) IN
  IF j > Len(c) THEN <<SubSeq(c, i, Len(c))>>
  ELSE <<SubSeq(c, i, j - 1)>> \o SplitLines(c, j + 1)

RESPONSE == <<"response">>
DELTA == <<"delta">>
PART == <<"part">>
EvCompleted == Str(<<"response.completed">>)
EvTextDelta == Str(<<"response.output_text.delta">>)
EvTextDone == Str(<<"response.output_text.done">>)
EvPartDone == Str(<<"response.content_part.done">>)

\* data.part?.text
PartText(data) ==
  LET part == GetProp(data, PART) IN
  IF PropThrows(part) THEN Undefined ELSE GetProp(part, TEXT)

\* data.response && data.response.output
HasResponseOutput(data) ==
  LET response == GetProp(data, RESPONSE) IN
  Truthy(response) /\ Truthy(GetProp(response, OUTPUT))

\* Variant of ProcessData that appends a final text to the deltas.
ProcessData_TextAppends(st, jsonStr) ==
  LET p == JSONparse(jsonStr)
      data == p.val
      type == GetProp(data, TYPE)
  IN IF ~p.ok \/ PropThrows(data)
     THEN [st EXCEPT !.parseErrorCount = st.parseErrorCount + 1,
                     !.threw = st.parseErrorCount + 1 > 5]
     ELSE IF type = EvCompleted
     THEN [st EXCEPT !.finalResponse = GetProp(data, RESPONSE)]
     ELSE IF type = EvTextDelta \/ type = EvTextDone
     THEN (IF Truthy(GetProp(data, DELTA))
           THEN [st EXCEPT !.fullText = st.fullText \o ToStringJS(GetProp(data, DELTA))]
           ELSE IF Truthy(GetProp(data, TEXT))
           THEN [st EXCEPT !.fullText = st.fullText \o ToStringJS(GetProp(data, TEXT))]
           ELSE st)
     ELSE IF type = EvPartDone /\ Truthy(PartText(data))
     THEN [st EXCEPT !.fullText = ToStringJS(PartText(data))]
     ELSE IF HasResponseOutput(data)
     THEN [st EXCEPT !.finalResponse = GetProp(data, RESPONSE)]
     ELSE st

\* Variant of ProcessData that gives up at the fifth failed line.
ProcessData_AbortsAtFifth(st, jsonStr) ==
  LET p == JSONparse(jsonStr)
      data == p.val
      type == GetProp(data, TYPE)
  IN IF ~p.ok \/ PropThrows(data)
     THEN [st EXCEPT !.parseErrorCount = st.parseErrorCount + 1,
                     !.threw = st.parseErrorCount + 1 > 4]
     ELSE IF type = EvCompleted
     THEN [st EXCEPT !.finalResponse = GetProp(data, RESPONSE)]
     ELSE IF type = EvTextDelta \/ type = EvTextDone
     THEN (IF Truthy(GetProp(data, DELTA))
           THEN [st EXCEPT !.fullText = st.fullText \o ToStringJS(GetProp(data, DELTA))]
           ELSE IF Truthy(GetProp(data, TEXT))
           THEN [st EXCEPT !.fullText = ToStringJS(GetProp(data, TEXT))]
           ELSE st)
     ELSE IF type = EvPartDone /\ Truthy(PartText(data))
     THEN [st EXCEPT !.fullText = ToStringJS(PartText(data))]
     ELSE IF HasResponseOutput(data)
     THEN [st EXCEPT !.finalResponse = GetProp(data, RESPONSE)]
     ELSE st

\* Variant of ProcessData that puts a delta in front of the text.
ProcessData_DeltaPrepends(st, jsonStr) ==
  LET p == JSONparse(jsonStr)
      data == p.val
      type == GetProp(data, TYPE)
  IN IF ~p.ok \/ PropThrows(data)
     THEN [st EXCEPT !.parseErrorCount = st.parseErrorCount + 1,
                     !.threw = st.parseErrorCount + 1 > 5]
     ELSE IF type = EvCompleted
     THEN [st EXCEPT !.finalResponse = GetProp(data, RESPONSE)]
     ELSE IF type = EvTextDelta \/ type = EvTextDone
     THEN (IF Truthy(GetProp(data, DELTA))
           THEN [st EXCEPT !.fullText = ToStringJS(GetProp(data, DELTA)) \o st.fullText]
           ELSE IF Truthy(GetProp(data, TEXT))
           THEN [st EXCEPT !.fullText = ToStringJS(GetProp(data, TEXT))]
           ELSE st)
     ELSE IF type = EvPartDone /\ Truthy(PartText(data))
     THEN [st EXCEPT !.fullText = ToStringJS(PartText(data))]
     ELSE IF HasResponseOutput(data)
     THEN [st EXCEPT !.finalResponse = GetProp(data, RESPONSE)]
     ELSE st

\* The body of the inner try for one payload; st holds fullText,
\* finalResponse, parseErrorCount and whether the decode has thrown.
\* JSON.parse failing and data.type of null both reach catch (parseError).
ProcessData(st, jsonStr) ==
  LET p == JSONparse(jsonStr)
      data == p.val
      type == GetProp(data, TYPE)
  IN IF ~p.ok \/ PropThrows(data)
     THEN [st EXCEPT !.parseErrorCount = st.parseErrorCount + 1,
                     !.threw = st.parseErrorCount + 1 > 5]
     ELSE IF type = EvCompleted
     THEN [st EXCEPT !.finalResponse = GetProp(data, RESPONSE)]
     ELSE IF type = EvTextDelta \/ type = EvTextDone
     THEN (IF Truthy(GetProp(data, DELTA))
           THEN [st EXCEPT !.fullText = st.fullText \o ToStringJS(GetProp(data, DELTA))]
           ELSE IF Truthy(GetProp(data, TEXT))
           THEN [st EXCEPT !.fullText = ToStringJS(GetProp(data, TEXT))]
           ELSE st)
     ELSE IF type = EvPartDone /\ Truthy(PartText(data))
     THEN [st EXCEPT !.fullText = ToStringJS(PartText(data))]
     ELSE IF HasResponseOutput(data)
     THEN [st EXCEPT !.finalResponse = GetProp(data, RESPONSE)]
     ELSE st

\* Variant of ProcessLine that hands a [DONE] line to the JSON parser.
ProcessLine_DoneCounts(st, line) ==
  IF ~StartsWith(line, DataPrefix) THEN st
  ELSE ProcessData(st, SubSeq(line, Len(DataPrefix) + 1, Len(line)))

\* One line of a chunk: only "data: " lines count, "[DONE]" is skipped.
ProcessLine(st, line) ==
  IF ~StartsWith(line, DataPrefix) THEN st
  ELSE LET jsonStr == SubSeq(line, Len(DataPrefix) + 1, Len(line)) IN
       IF Trim(jsonStr) = DoneMarker THEN st ELSE ProcessData(st, jsonStr)

\* for (const line of lines), left when the decode throws.
RECURSIVE ProcessLines(_, _, _)
ProcessLines(st, lines, i) ==
  IF i > Len(lines) \/ st.threw THEN st
  ELSE ProcessLines(ProcessLine(st, lines[i]), lines, i + 1)

TooManyErrorsMsg == "Stream parsing failed: Too many JSON parse errors"
StreamUnreadableMsg == "Response stream could not be read"
ReadFailedMsg == "network error"

RequestFailedMsg == "Request failed"

\* ApiResponse: error names the message; a "Request failed" message also
\* carries the status and the text that follow it in the string.
NoResult ==
  [success |-> FALSE, error |-> "none", status |-> 0, text |-> <<>>,
   content |-> <<>>, id |-> <<>>, model |-> <<>>]
Failure(m) == [NoResult EXCEPT !.error = m]
\* `Request failed (${response.status}): ${errorText || response.statusText}`
RequestFailed(status, errorText, statusText) ==
  [Failure(RequestFailedMsg) EXCEPT !.status = status,
     !.text = IF errorText # <<>> THEN errorText ELSE statusText]

\* x?.k || ''
FieldOrEmpty(x, k) ==
  IF PropThrows(x) THEN <<>>
  ELSE IF Truthy(GetProp(x, k)) THEN ToStringJS(GetProp(x, k)) ELSE <<>>

Transformed_NoDefaults(text, final) ==
  [success |-> TRUE, error |-> "none", status |-> 0, text |-> <<>>, content |-> text,
   id |-> IF PropThrows(final) THEN <<"undefined">> ELSE ToStringJS(GetProp(final, IDKEY)),
   model |-> IF PropThrows(final) THEN <<"undefined">>
             ELSE ToStringJS(GetProp(final, MODELKEY))]

\* transformedResponse of a decode that reached the end of the stream.
Transformed(text, final) ==
  [success |-> TRUE, error |-> "none", status |-> 0, text |-> <<>>, content |-> text,
   id |-> FieldOrEmpty(final, IDKEY), model |-> FieldOrEmpty(final, MODELKEY)]

\* Lines a stream can deliver, by kind.
EventLine(x) == DataPrefix \o JSONstringify(x)
DeltaEvent(d) == Obj(<<Prop(TYPE, EvTextDelta), Prop(DELTA, Str(d))>>)
TextDoneEvent(t) == Obj(<<Prop(TYPE, EvTextDone), Prop(TEXT, Str(t))>>)
PartDoneEvent(t) == Obj(<<Prop(TYPE, EvPartDone), Prop(PART, Obj(<<Prop(TEXT, Str(t))>>))>>)
ResponseObj(id) ==
  Obj(<<Prop(IDKEY, Str(id)), Prop(MODELKEY, Str(<<"octagon-agent">>)), Prop(OUTPUT, Arr(<<>>))>>)
CompletedEvent(id) == Obj(<<Prop(TYPE, EvCompleted), Prop(RESPONSE, ResponseObj(id))>>)
CreatedEvent(id) == Obj(<<Prop(TYPE, Str(<<"response.created">>)), Prop(RESPONSE, ResponseObj(id))>>)
\* A completed event whose response has no id and no model, and one that has
\* no response at all.
BareCompletedEvent == Obj(<<Prop(TYPE, EvCompleted), Prop(RESPONSE, Obj(<<>>))>>)
EmptyCompletedEvent == Obj(<<Prop(TYPE, EvCompleted)>>)

\* What a stream can deliver on one line: k is the kind of line, a its text
\* (a delta, a final text, a response id or a payload that is not JSON).
Line(k, a) == [k |-> k, a |-> a]
Deltas == {<<"Risk ">>, <<"factors...">>}
DeltaLines == {Line("delta", d) : d \in Deltas}
MalformedLines == {Line("malformed", <<"{", QUOTE, "type", QUOTE, ":">>), Line("malformed", <<>>)}
NullLines == {Line("null", <<>>)}
TextLines == {Line("textDone", <<"T">>), Line("partDone", <<"P">>)}
OtherLines ==
  {Line("completed", <<"r1">>), Line("created", <<"r2">>), Line("ping", <<>>),
   Line("DONE", <<>>), Line("comment", <<>>), Line("bareCompleted", <<>>),
   Line("emptyCompleted", <<>>)}
CaptureLines == {l \in OtherLines : l.k \in {"completed", "created", "bareCompleted", "emptyCompleted"}}
AllLines == DeltaLines \cup MalformedLines \cup NullLines \cup TextLines \cup OtherLines
CoreLines == DeltaLines \cup NullLines \cup {Line("malformed", <<>>)}

\* The characters of a line.
LineText(l) ==
  CASE l.k = "delta" -> EventLine(DeltaEvent(l.a))
    [] l.k = "textDone" -> EventLine(TextDoneEvent(l.a))
    [] l.k = "partDone" -> EventLine(PartDoneEvent(l.a))
    [] l.k = "completed" -> EventLine(CompletedEvent(l.a))
    [] l.k = "created" -> EventLine(CreatedEvent(l.a))
    [] l.k = "bareCompleted" -> EventLine(BareCompletedEvent)
    [] l.k = "emptyCompleted" -> EventLine(EmptyCompletedEvent)
    [] l.k = "ping" -> EventLine(Obj(<<Prop(TYPE, Str(<<"ping">>))>>))
    [] l.k = "null" -> DataPrefix \o <<"null">>
    [] l.k = "malformed" -> DataPrefix \o l.a
    [] l.k = "DONE" -> DataPrefix \o DoneMarker
    [] OTHER -> <<":", "keepalive">>

\* A chunk holds complete lines, each ended by a newline.
RECURSIVE ChunkText(_)
ChunkText(ls) ==
  IF ls = <<>> THEN <<>> ELSE LineText(Head(ls)) \o <<NEWLINE>> \o ChunkText(Tail(ls))

ChunkLines == {<<l>> : l \in AllLines} \cup {<<l1, l2>> : l1 \in CoreLines, l2 \in CoreLines}

RECURSIVE CountIn(_, _)
CountIn(ls, S) ==
  IF ls = <<>> THEN 0 ELSE (IF Head(ls) \in S THEN 1 ELSE 0) + CountIn(Tail(ls), S)

RECURSIVE ConcatDeltas(_)
ConcatDeltas(ls) ==
  IF ls = <<>> THEN <<>>
  ELSE (IF Head(ls).k = "delta" THEN Head(ls).a ELSE <<>>) \o ConcatDeltas(Tail(ls))

\* The id and model of the last response a line of ls captures, prev when
\* none does.
RECURSIVE LastCapture(_, _)
LastCapture(ls, prev) ==
  IF ls = <<>> THEN prev
  ELSE LastCapture(Tail(ls),
         IF Head(ls).k \in {"completed", "created"}
         THEN [id |-> Head(ls).a, model |-> <<"octagon-agent">>]
         ELSE IF Head(ls) \in CaptureLines THEN [id |-> <<>>, model |-> <<>>]
         ELSE prev)

IsFinalText(l) == l.k \in {"textDone", "partDone"}

\* The text after the lines of ls under the rule that a delta is appended
\* and a final text that is not empty replaces what there is.
RECURSIVE Accumulate(_, _)
Accumulate(ls, acc) ==
  IF ls = <<>> THEN acc
  ELSE Accumulate(Tail(ls),
         IF Head(ls).k = "delta" THEN acc \o Head(ls).a
         ELSE IF IsFinalText(Head(ls)) /\ Head(ls).a # <<>> THEN Head(ls).a
         ELSE acc)

\* The last line of ls that is a text event, prev when there is none.
RECURSIVE LastText(_, _)
LastText(ls, prev) ==
  IF ls = <<>> THEN prev
  ELSE LastText(Tail(ls), IF Head(ls).k = "delta" \/ IsFinalText(Head(ls)) THEN Head(ls) ELSE prev)

\* History of the stream: bad and nulls count the lines delivered whose
\* payload is not JSON and whose payload is the JSON null; onlyDeltas: every
\* line so far is a text delta; noFinalText: no line so far carries a final
\* text; deltas: the deltas delivered so far, in order (kept while
\* noFinalText); final: id and model of the last response captured; done: a
\* read has reported the end of the stream.
NoHist ==
  [bad |-> 0, nulls |-> 0, onlyDeltas |-> TRUE, noFinalText |-> TRUE, deltas |-> <<>>,
   final |-> [id |-> <<>>, model |-> <<>>], done |-> FALSE]

Record(h, ls) ==
  LET noFinal == h.noFinalText /\ CountIn(ls, TextLines) = 0 IN
  [bad |-> h.bad + CountIn(ls, MalformedLines),
   nulls |-> h.nulls + CountIn(ls, NullLines),
   onlyDeltas |-> h.onlyDeltas /\ CountIn(ls, DeltaLines) = Len(ls),
   noFinalText |-> noFinal,
   deltas |-> IF noFinal THEN h.deltas \o ConcatDeltas(ls) ELSE <<>>,
   final |-> LastCapture(ls, h.final),
   done |-> h.done]

\* No stream has been decoded as a whole.
NoDecode == [pc |-> "idle"]

SIdle ==
  /\ spc = "idle" /\ fullText = <<>> /\ finalResponse = Null /\ parseErrorCount = 0
  /\ sres = NoResult /\ nread = 0 /\ hist = NoHist /\ dec = NoDecode

\* The streaming service's request log entry has no call of the extension
\* client behind it.
StreamCall == 0

\* The body of an error response as response.text() gives it; readable is
\* whether response.text() resolves.
TextBody(text, statusText) == [readable |-> TRUE, text |-> text, statusText |-> statusText]
UnreadableBody == [readable |-> FALSE, text |-> <<>>, statusText |-> <<>>]
DetailText == JSONstringify(Obj(<<Prop(DETAIL, Str(<<"Invalid API key">>))>>))
StreamBodies ==
  {TextBody(DetailText, <<"Unauthorized">>), TextBody(<<"oops">>, <<>>),
   TextBody(<<>>, <<"Unauthorized">>), TextBody(<<>>, <<>>), UnreadableBody}

\* callAgent -> apiRequest up to its fetch: isAuthenticated() (no await)
\* loads the key when this.apiKey is falsy; the request carries this.apiKey.
callAgent_session(inst, prompt) ==
  LET key == IF ~Truthy(sKey[inst]) THEN loadStored(session, sKey[inst], 0).key
             ELSE sKey[inst]
      authed == Truthy(key) /\ key.t = "str" /\ Trim(key.v) # <<>>
  IN /\ spc = "idle"
     /\ sKey' = [sKey EXCEPT ![inst] = key]
     /\ spc' = IF authed THEN "fetch" ELSE "returned"
     /\ sres' = IF authed THEN sres ELSE Failure(NotAuthenticatedMsg)
     /\ http' = IF authed
                THEN Append(http, [call |-> StreamCall, token |-> key,
                                   input |-> prompt, text |-> Undefined])
                ELSE http
     /\ UNCHANGED <<fullText, finalResponse, parseErrorCount, nread, hist, session, khist,
                    resp, store, apiKey, credOp, call, sawKey, variant, fvars, dec>>

\* The response arrives.  Not ok: response.text() is awaited and the failure
\* is returned (a rejected text() is caught by the outer catch, which
\* returns the error's message); ok: handleStreamedResponse takes over.
fetchResolves_session(status, body) ==
  /\ spc = "fetch"
  /\ spc' = IF IsOk(status) THEN "responded" ELSE "returned"
  /\ sres' = IF IsOk(status) THEN sres
             ELSE IF ~body.readable THEN Failure(ReadFailedMsg)
             ELSE RequestFailed(status, body.text, body.statusText)
  /\ resp' = Received(resp, StreamCall, status, body)
  /\ UNCHANGED <<fullText, finalResponse, parseErrorCount, nread, hist, session, sKey,
                 khist, variant, fvars, cvars, dec>>

\* fetch rejects: the outer catch returns the error's message.
fetchRejects_session ==
  /\ spc = "fetch"
  /\ spc' = "returned"
  /\ sres' = Failure(FetchFailedMsg)
  /\ UNCHANGED <<fullText, finalResponse, parseErrorCount, nread, hist, variant, fvars,
                 cvars, kvars, dec>>

\* response.body?.getReader(): without a reader the decode fails at once.
getReader(ok) ==
  /\ spc = "responded"
  /\ spc' = IF ok THEN "reading" ELSE "returned"
  /\ sres' = IF ok THEN sres ELSE Failure(StreamUnreadableMsg)
  /\ UNCHANGED <<fullText, finalResponse, parseErrorCount, nread, hist, variant, fvars, cvars, kvars, dec>>

\* reader.read() resolves with a chunk, which is decoded and processed line
\* by line; the sixth parse error throws and the decode returns the failure.
readChunk(ls) ==
  /\ spc = "reading"
  /\ nread + Len(ls) <= MaxLines
  /\ LET st == ProcessLines([fullText |-> fullText, finalResponse |-> finalResponse,
                             parseErrorCount |-> parseErrorCount, threw |-> FALSE],
                            SplitLines(ChunkText(ls), 1), 1)
     IN /\ Len(st.fullText) <= MaxText
        /\ fullText' = st.fullText
        /\ finalResponse' = st.finalResponse
        /\ parseErrorCount' = st.parseErrorCount
        /\ spc' = IF st.threw THEN "returned" ELSE "reading"
        /\ sres' = IF st.threw THEN Failure(TooManyErrorsMsg) ELSE sres
  /\ nread' = nread + Len(ls)
  /\ hist' = Record(hist, ls)
  /\ UNCHANGED <<variant, fvars, cvars, kvars, dec>>

\* reader.read() resolves with done: the result is built from what was
\* collected.
readDone ==
  /\ spc = "reading"
  /\ spc' = "returned"
  /\ sres' = Transformed(fullText, finalResponse)
  /\ hist' = [hist EXCEPT !.done = TRUE]
  /\ UNCHANGED <<fullText, finalResponse, parseErrorCount, nread, variant, fvars, cvars, kvars, dec>>

\* Variant of readRejects that returns what was read so far as a success.
readRejects_PartialSuccess ==
  /\ spc = "reading"
  /\ spc' = "returned"
  /\ sres' = Transformed(fullText, finalResponse)
  /\ UNCHANGED <<fullText, finalResponse, parseErrorCount, nread, hist, variant, fvars, cvars, kvars, dec>>

\* reader.read() rejects: rethrown, caught by the outer catch.
readRejects ==
  /\ spc = "reading"
  /\ spc' = "returned"
  /\ sres' = Failure(ReadFailedMsg)
  /\ UNCHANGED <<fullText, finalResponse, parseErrorCount, nread, hist, variant, fvars, cvars, kvars, dec>>

\* The decoded content given to the formatter with the raw format.
formatDecoded ==
  /\ spc = "returned" /\ sres.success
  /\ fpc = "choose"
  /\ fpc' = "parsed"
  /\ fKind' = "decoded"
  /\ fContent' = sres.content
  /\ fFormat' = Str(RAW)
  /\ fResult' = ParseTextFormatOf(variant, sres.content, Str(RAW))
  /\ UNCHANGED <<fSrc, variant, cvars, svars, kvars>>

\* The read loop over a whole stream: the chunks cs are decoded and split
\* one after the other, each on its own, until a read reports done or the
\* decode throws.
StartState == [fullText |-> <<>>, finalResponse |-> Null, parseErrorCount |-> 0, threw |-> FALSE]

RECURSIVE DecodeChunks(_, _, _)
DecodeChunks(st, cs, i) ==
  IF i > Len(cs) \/ st.threw THEN st
  ELSE DecodeChunks(ProcessLines(st, SplitLines(cs[i], 1), 1), cs, i + 1)

Decode(cs) == DecodeChunks(StartState, cs, 1)

\* Streams given to the decoder as a whole: up to MaxStream lines of these
\* kinds, and streams that begin with five lines that are not JSON.
DLines ==
  {Line("delta", <<"Risk ">>), Line("textDone", <<"T">>), Line("completed", <<"r1">>),
   Line("malformed", <<>>), Line("null", <<>>), Line("DONE", <<>>), Line("comment", <<>>)}
FiveBad == [i \in 1..5 |-> Line("malformed", <<>>)]
FinalTexts ==
  {Line("textDone", <<"T">>), Line("partDone", <<"P">>), Line("textDone", <<>>),
   Line("partDone", <<>>)}
DeltasThenText ==
  {<<Line("delta", <<"Risk ">>), Line("delta", <<"ok">>), t>> : t \in FinalTexts}
  \cup {<<Line("delta", <<"Risk ">>), t>> : t \in FinalTexts}
  \cup {<<t, Line("delta", <<"ok">>)>> : t \in FinalTexts}
Streams ==
  UNION {[1..n -> DLines] : n \in 1..MaxStream}
  \cup {FiveBad \o <<l>> : l \in {Line("DONE", <<>>), Line("delta", <<"Risk ">>)}}
  \cup DeltasThenText

\* The bytes of the stream cut after position k.
CutAt(text, k) == <<SubSeq(text, 1, k), SubSeq(text, k + 1, Len(text))>>

\* Each line with its newline as a chunk of its own.
LineChunks(ls) == [i \in 1..Len(ls) |-> ChunkText(<<ls[i]>>)]

WithoutDone(ls) == SelectSeq(ls, LAMBDA l : l.k # "DONE")

\* The stream ls arrives in two chunks, cut after position k, and the same
\* bytes arrive as one chunk.
DecodeCut(ls, k) ==
  /\ dec.pc = "idle"
  /\ k \in 1..(Len(ChunkText(ls)) - 1)
  /\ dec' = [pc |-> "cut", lines |-> ls, cut |-> k,
             atNewline |-> ChunkText(ls)[k] = NEWLINE,
             whole |-> Decode(<<ChunkText(ls)>>),
             parts |-> Decode(CutAt(ChunkText(ls), k))]
  /\ UNCHANGED <<spc, fullText, finalResponse, parseErrorCount, sres, nread, hist,
                 variant, fvars, cvars, kvars>>

\* The stream ls arrives line by line (or as one chunk), and so does the
\* same stream with its [DONE] lines taken out.
DecodeWithoutDone(ls, byLine) ==
  /\ dec.pc = "idle"
  /\ dec' = [pc |-> "noDone", lines |-> ls, cut |-> 0, atNewline |-> TRUE,
             whole |-> IF byLine THEN Decode(LineChunks(ls)) ELSE Decode(<<ChunkText(ls)>>),
             parts |-> IF byLine THEN Decode(LineChunks(WithoutDone(ls)))
                       ELSE Decode(<<ChunkText(WithoutDone(ls))>>)]
  /\ UNCHANGED <<spc, fullText, finalResponse, parseErrorCount, sres, nread, hist,
                 variant, fvars, cvars, kvars>>

DInit ==
  /\ SIdle /\ CIdle /\ FIdle /\ variant = "format_ts"
  /\ khist = NoHistory /\ resp = NoResponse
  /\ sKey = [i \in Instances |-> Null]
  /\ session = NoSession

DNext ==
  \/ \E ls \in Streams : \E k \in 1..(Len(ChunkText(ls)) - 1) : DecodeCut(ls, k)
  \/ \E ls \in Streams, byLine \in BOOLEAN : DecodeWithoutDone(ls, byLine)

SpecD == DInit /\ [][DNext]_vars

\* The string a custom function of the streaming variant gives to the cell:
\* "Error: " followed by msg, or the text as it is.
ErrorCell(msg) == [error |-> TRUE, msg |-> msg, text |-> <<>>]
TextCell(text) == [error |-> FALSE, msg |-> "none", text |-> text]
LoginScreenMsg == "Not authenticated. Please enter your API key in the Login Screen."
NoContentText == <<"No response content">>
ContentOfUndefinedMsg == "Cannot read properties of undefined (reading 'content')"

\* callOctagonAgent after its await: response.data.content is read; a
\* result without data makes that a TypeError, which the catch returns as
\* "Error: " with the TypeError's message.
CellOf(r) ==
  IF ~r.success THEN ErrorCell(ContentOfUndefinedMsg)
  ELSE IF r.content # <<>> THEN TextCell(r.content) ELSE TextCell(NoContentText)

\* callOctagonAgent up to its await (isApiInitialized is true once the
\* functions are registered): the prompt check, isAuthenticated(), then
\* callAgent -> apiRequest up to its fetch.
FunctionsKey ==
  IF ~Truthy(sKey["functions"]) THEN loadStored(session, sKey["functions"], 0).key
  ELSE sKey["functions"]

callOctagonAgent(prompt) ==
  /\ spc = "idle" /\ dec.pc = "idle"
  /\ \E key \in {FunctionsKey} :
       \E authed \in {Truthy(key) /\ key.t = "str" /\ Trim(key.v) # <<>>} :
         \/ /\ Trim(prompt) = <<>>
            /\ dec' = [pc |-> "cell", cell |-> ErrorCell(InvalidPromptMsg)]
            /\ UNCHANGED <<spc, fullText, finalResponse, parseErrorCount, sres, nread, hist,
                           variant, fvars, cvars, kvars>>
         \/ /\ Trim(prompt) # <<>> /\ ~authed
            /\ sKey' = [sKey EXCEPT !["functions"] = key]
            /\ dec' = [pc |-> "cell", cell |-> ErrorCell(LoginScreenMsg)]
            /\ UNCHANGED <<spc, fullText, finalResponse, parseErrorCount, sres, nread, hist,
                           variant, fvars, cvars, session, khist, resp>>
         \/ /\ Trim(prompt) # <<>> /\ authed
            /\ sKey' = [sKey EXCEPT !["functions"] = key]
            /\ spc' = "fetch"
            /\ http' = Append(http, [call |-> StreamCall, token |-> key,
                                    input |-> prompt, text |-> Undefined])
            /\ UNCHANGED <<fullText, finalResponse, parseErrorCount, sres, nread, hist,
                           session, khist, resp, store, apiKey, credOp, call, sawKey,
                           variant, fvars, dec>>

\* The awaited callAgent has resolved with the service's result.
callOctagonAgentReturns ==
  /\ spc = "returned" /\ dec.pc = "idle"
  /\ dec' = [pc |-> "cell", cell |-> CellOf(sres)]
  /\ UNCHANGED <<spc, fullText, finalResponse, parseErrorCount, sres, nread, hist,
                 variant, fvars, cvars, kvars>>

\* Bodies given to parseAgentResponse: output arrays of one or two items,
\* the message items with up to MaxParts parts, and bodies that have no
\* output array.
PParts ==
  {TextPart(<<"a">>), TextPart(<<"b">>), TextPart(<<>>),
   Obj(<<Prop(TYPE, Str(<<"refusal">>)), Prop(TEXT, Str(<<"r">>))>>),
   Obj(<<Prop(TYPE, Str(<<"output_text">>))>>), Null}
PartLists == UNION {[1..n -> PParts] : n \in 0..MaxParts}
OtherItems ==
  {Obj(<<Prop(TYPE, Str(<<"reasoning">>)), Prop(CONTENT, Arr(<<TextPart(<<"a">>)>>))>>),
   Obj(<<Prop(TYPE, Str(<<"message">>))>>),
   Obj(<<Prop(TYPE, Str(<<"message">>)), Prop(CONTENT, Str(<<"x">>))>>),
   Null}
PItems == {MessageItem(ps) : ps \in PartLists} \cup OtherItems
ShortItems == {MessageItem(ps) : ps \in {q \in PartLists : Len(q) <= 1}} \cup OtherItems
NoOutputBodies ==
  {Obj(<<Prop(IDKEY, Str(<<"resp_1">>)), Prop(MODELKEY, Str(<<"octagon-agent">>))>>),
   Obj(<<Prop(IDKEY, Str(<<"resp_1">>)), Prop(OUTPUT, Null)>>),
   Obj(<<Prop(IDKEY, Str(<<"resp_1">>)), Prop(OUTPUT, Str(<<"x">>))>>),
   Obj(<<Prop(OUTPUT, Obj(<<>>))>>), Obj(<<>>), Str(<<"x">>), Null}
PBodies ==
  {MkBody(<<>>)} \cup {MkBody(<<i>>) : i \in PItems}
  \cup {MkBody(<<i, j>>) : i \in ShortItems, j \in ShortItems}
  \cup NoOutputBodies

\* parseAgentResponse on the body b of a response whose JSON decodes.
parseBody(b) ==
  /\ dec.pc = "idle"
  /\ dec' = [pc |-> "parsed", body |-> b, result |-> parseAgentResponse(Decoded(b))]
  /\ UNCHANGED <<spc, fullText, finalResponse, parseErrorCount, sres, nread, hist,
                 variant, fvars, cvars, kvars>>

PNext == \E b \in PBodies : parseBody(b)

SpecP == DInit /\ [][PNext]_vars

\* The session store once the task pane has saved a key.
SignedIn == saveApiKey(NoSession, <<"k1">>, 0).ss

SInit ==
  /\ SIdle /\ CIdle /\ FIdle /\ variant = "format_ts"
  /\ khist = NoHistory /\ resp = NoResponse
  /\ sKey = [i \in Instances |-> Null]
  /\ session \in {NoSession, SignedIn}

SNext ==
  \/ callAgent_session("functions", <<"a">>)
  \/ \E st \in Statuses, b \in StreamBodies : fetchResolves_session(st, b)
  \/ fetchRejects_session
  \/ \E ok \in BOOLEAN : getReader(ok)
  \/ \E ls \in ChunkLines : readChunk(ls)
  \/ readDone
  \/ readRejects
  \/ formatDecoded

SpecS == SInit /\ [][SNext]_vars

\* The same call under the runtime's scheduling: the promise of each
\* reader.read() is settled, with a chunk, with done or with a rejection, and
\* a finite stream has no more than MaxLines lines to give.
LChunks ==
  {<<Line("delta", <<"Risk ">>)>>, <<Line("malformed", <<>>)>>,
   <<Line("completed", <<"r1">>)>>, <<Line("DONE", <<>>)>>}

ReadSettles ==
  \/ \E ls \in LChunks : readChunk(ls)
  \/ readDone
  \/ readRejects

LNext ==
  \/ callAgent_session("functions", <<"a">>)
  \/ \E st \in {200, 401} : fetchResolves_session(st, UnreadableBody)
  \/ fetchRejects_session
  \/ \E ok \in BOOLEAN : getReader(ok)
  \/ \E ls \in LChunks : readChunk(ls)
  \/ readDone
  \/ readRejects

SpecL == SInit /\ [][LNext]_vars /\ WF_vars(ReadSettles)

\* A custom function of the streaming variant, from its call to the string
\* it gives to the cell.
GNext ==
  \/ \E p \in Prompts : callOctagonAgent(p)
  \/ \E st \in {200, 401}, b \in {TextBody(DetailText, <<"Unauthorized">>), UnreadableBody} :
        fetchResolves_session(st, b)
  \/ fetchRejects_session
  \/ \E ok \in BOOLEAN : getReader(ok)
  \/ \E ls \in LChunks : readChunk(ls)
  \/ readDone
  \/ readRejects
  \/ callOctagonAgentReturns

SpecG == SInit /\ [][GNext]_vars

\* The credential stores on their own, one operation at a time: the
\* OfficeRuntime.storage service or the session-storage service.
Services == {"extension", "session"}
Quiet == credOp = NoCredOp /\ \A c \in Calls : call[c].pc = "idle"
Turn(svc) == khist.svc = svc /\ Quiet

KInit ==
  /\ CInit /\ FIdle /\ SIdle /\ variant = "format_ts"
  /\ sKey = [i \in Instances |-> Null] /\ resp = NoResponse
  /\ \E svc \in Services :
       /\ khist = [NoHistory EXCEPT !.on = TRUE, !.svc = svc]
       /\ session \in (IF svc = "session" THEN InitSessions ELSE {NoSession})
       /\ svc = "session" => store = Null

KNext ==
  \/ \E i \in Instances, k \in KeyInputs : Turn("extension") /\ setApiKey(i, k)
  \/ \E i \in Instances : Turn("extension") /\ clearApiKey(i)
  \/ \E ok \in BOOLEAN : storageCompletes(ok)
  \/ \E i \in Instances : Turn("extension") /\ isAuthenticatedCalled(1, i)
  \/ \E ok \in BOOLEAN : loadApiKey(1, ok)
  \/ isAuthenticated(1)
  \/ callReturns(1)
  \/ \E i \in Instances, k \in KeyInputs, n \in ThrowPoints :
       Turn("session") /\ setApiKey_session(i, k, n)
  \/ \E i \in Instances, n \in ThrowPoints : Turn("session") /\ clearApiKey_session(i, n)
  \/ \E i \in Instances, n \in ThrowPoints : Turn("session") /\ isAuthenticated_session(i, n)

SpecK == KInit /\ [][KNext]_vars

\* Error responses: one call of each service, with a key stored, answered
\* with statuses on both sides of response.ok.
EdgeStatuses == {200, 299, 300, 401, 500}
UFormats == {Undefined, Str(TABLE), Str(<<"x", "m", "l">>), Str(<<"toString">>)}
UPrompts == {<<>>, <<"a">>}

UInit ==
  /\ CInit /\ store \in {Null, Str(<<"k1">>)}
  /\ FIdle /\ SIdle /\ variant = "format_ts"
  /\ khist = NoHistory /\ resp = [NoResponse EXCEPT !.on = TRUE]
  /\ sKey = [i \in Instances |-> Null]
  /\ session \in {NoSession, SignedIn}

UNext ==
  \/ \E p \in UPrompts, f \in UFormats : callAgent(1, p, f)
  \/ \E p \in UPrompts, f \in UFormats : OCTAGON_AGENT(1, p, f)
  \/ \E ok \in BOOLEAN : loadApiKey(1, ok)
  \/ isAuthenticated(1)
  \/ createResponse(1)
  \/ \E st \in EdgeStatuses, b \in OkBodies \cup ErrBodies : fetchResolves(1, st, b)
  \/ fetchRejects(1)
  \/ callAgent_session("functions", <<"a">>)
  \/ \E st \in EdgeStatuses, b \in StreamBodies : fetchResolves_session(st, b)
  \/ fetchRejects_session

SpecU == UInit /\ [][UNext]_vars

\* Concurrent calls: every formula of the sheet is its own invocation, all on
\* the service instance of functions.ts; each await is a point where the
\* other invocations can run.
NPrompts == {<<>>, <<"a">>}
NFormats == {Str(TABLE), Str(<<"x", "m", "l">>)}
NBodies ==
  {Decoded(MkBody(<<MessageItem(<<TextPart(<<"x">>)>>)>>)), Undecodable,
   Decoded(Obj(<<Prop(DETAIL, Str(<<"Invalid API key">>))>>))}

NInit ==
  /\ CInit /\ FIdle /\ SIdle /\ variant = "format_ts"
  /\ khist = NoHistory /\ resp = NoResponse
  /\ sKey = [i \in Instances |-> Null]
  /\ session \in {NoSession, SignedIn}

NNext ==
  \/ \E c \in Calls, p \in NPrompts, f \in NFormats : callAgent(c, p, f)
  \/ \E c \in Calls, ok \in BOOLEAN : loadApiKey(c, ok)
  \/ \E c \in Calls : isAuthenticated(c)
  \/ \E c \in Calls : createResponse(c)
  \/ \E c \in Calls, st \in Statuses, b \in NBodies : fetchResolves(c, st, b)
  \/ \E c \in Calls : fetchRejects(c)
  \/ \E c \in Calls : callReturns(c)
  \/ callAgent_session("functions", <<"a">>)
  \/ \E st \in Statuses, b \in StreamBodies : fetchResolves_session(st, b)
  \/ fetchRejects_session

SpecN == NInit /\ [][NNext]_vars

\* The steps of concurrent calls, each invoked once, with the response each
\* one gets kept.
OInit ==
  /\ CInit /\ FIdle /\ SIdle /\ variant = "format_ts"
  /\ khist = NoHistory /\ resp = [NoResponse EXCEPT !.on = TRUE]
  /\ sKey = [i \in Instances |-> Null]
  /\ session = NoSession

ONext ==
  \/ \E c \in Calls, p \in NPrompts, f \in NFormats : callAgent(c, p, f)
  \/ \E c \in Calls, ok \in BOOLEAN : loadApiKey(c, ok)
  \/ \E c \in Calls : isAuthenticated(c)
  \/ \E c \in Calls : createResponse(c)
  \/ \E c \in Calls, st \in EdgeStatuses, b \in NBodies : fetchResolves(c, st, b)
  \/ \E c \in Calls : fetchRejects(c)

SpecO == OInit /\ [][ONext]_vars

Init == CInit /\ FIdle /\ SIdle /\ KIdle /\ variant \in Variants

\* One agent call at a time, with credential operations of both instances
\* in between its steps.
Next ==
  \/ \E p \in Prompts, f \in FormatInputs : callAgent(1, p, f)
  \/ \E p \in Prompts, f \in FormatInputs : OCTAGON_AGENT(1, p, f)
  \/ \E ok \in BOOLEAN : loadApiKey(1, ok)
  \/ isAuthenticated(1)
  \/ createResponse(1)
  \/ \E st \in Statuses, b \in OkBodies \cup ErrBodies : fetchResolves(1, st, b)
  \/ fetchRejects(1)
  \/ callReturns(1)
  \/ \E i \in Instances : clearApiKey(i)
  \/ \E i \in Instances, k \in KeyInputs : setApiKey(i, k)
  \/ \E ok \in BOOLEAN : storageCompletes(ok)

Spec == Init /\ [][Next]_vars

FInit == FIdle /\ CIdle /\ SIdle /\ KIdle /\ variant \in Variants

FNext ==
  \/ \E x \in SrcValues : FEncode(x)
  \/ \E n \in 0..Len(fContent) : FTruncate(n)
  \/ \E c \in MalformedContents : FMalformed(c)
  \/ \E f \in FormatArgs : FParse(f)

SpecF == FInit /\ [][FNext]_vars

\* ------------------------------------------------------------------------
\* Properties of the agent client (specification Spec)
\* ------------------------------------------------------------------------
Done(c) == call[c].pc = "done"
Failed(c, m) == call[c].out.kind = "thrown" /\ call[c].out.err.msg = m
NoRequest(c) == RequestsOf(c) = <<>>

\* C1: a call whose prompt is empty or whitespace-only ends with the
\* invalid-prompt error and has issued no HTTP request, whatever the format
\* and whether or not a credential is stored.
C1_BlankPromptRejected ==
  \A c \in Calls :
  (Done(c) /\ call[c].prompt \in BlankPrompts) => (Failed(c, InvalidPromptMsg) /\ NoRequest(c))

C1_Witness ==
  \E c \in Calls :
  /\ Done(c) /\ call[c].via = "callAgent" /\ call[c].prompt = <<SPACE, NEWLINE>>
  /\ store # Null /\ call[c].format = Str(RAW) /\ Failed(c, InvalidPromptMsg)

UnrecognizedFormat(f) ==
  /\ f.t = "str"
  /\ f \notin {Str(RAW), Str(TABLE), Str(SingleCellName(variant)),
               Str(<<"R", "A", "W">>), Str(<<"T", "a", "b", "l", "e">>)}

\* C3: a call with a valid prompt and a stored credential whose format string
\* is not a recognized format ends with the invalid-format error and has
\* issued no HTTP request, for every such string.
C3_UnrecognizedFormatRejected ==
  \A c \in Calls :
  (Done(c) /\ call[c].authed /\ UnrecognizedFormat(call[c].format))
    => (call[c].out = Thrown(InvalidFormatError) /\ NoRequest(c))

\* What a format argument stands for once normalised.
NormalForm(f) ==
  CASE f = Undefined -> Str(TABLE)
    [] f = Str(<<"R", "A", "W">>) -> Str(RAW)
    [] f = Str(<<"T", "a", "b", "l", "e">>) -> Str(TABLE)
    [] OTHER -> f

Normalisable == {Undefined, Str(<<"R", "A", "W">>), Str(<<"T", "a", "b", "l", "e">>)}

TextHint(f) == IF f = Str(RAW) THEN "RAW_TEXT" ELSE "TABLE_FORMAT"

\* The format is accepted; a request carries the schema hint of format f and
\* the response is formatted as f.
BehavesAs(c, f) ==
  /\ call[c].out.err.msg # "Invalid format"
  /\ RequestsOf(c) # <<>> => RequestsOf(c)[1].text = TextHint(f)
  /\ call[c].out.kind = "returned"
       => call[c].out.val = ParseTextFormatOf(variant, call[c].content, f)

\* C4 as stated: an omitted format behaves as table and a recognized format
\* in another letter case behaves as its lower-case form, at callAgent and at
\* OCTAGON_AGENT alike.
C4_Original ==
  \A c \in Calls :
  (Done(c) /\ call[c].authed /\ call[c].formatArg \in Normalisable)
    => BehavesAs(c, NormalForm(call[c].formatArg))

\* C4 as amended: the normalisation is done by the OCTAGON_AGENT custom
\* function; callAgent itself compares the format case-sensitively and has no
\* default, so it rejects an omitted or upper-case format as invalid.
C4_NormalisedByCustomFunction ==
  \A c \in Calls :
  /\ (Done(c) /\ call[c].authed /\ call[c].formatArg \in Normalisable /\ call[c].via = "OCTAGON_AGENT")
       => BehavesAs(c, NormalForm(call[c].formatArg))
  /\ (Done(c) /\ call[c].authed /\ call[c].formatArg \in Normalisable /\ call[c].via = "callAgent")
       => (call[c].out = Thrown(InvalidFormatError) /\ NoRequest(c))

C4_Witness ==
  \E c \in Calls :
  /\ Done(c) /\ call[c].via = "OCTAGON_AGENT" /\ call[c].formatArg = Str(<<"R", "A", "W">>)
  /\ call[c].out.kind = "returned" /\ call[c].out.val = Arr(<<Arr(<<Str(call[c].content)>>)>>)
  /\ call[c].content = <<"x">> /\ Len(RequestsOf(c)) = 1 /\ RequestsOf(c)[1].text = "RAW_TEXT"

\* C5: with a recognized format, whatever a call returns is a two-dimensional
\* grid, and for raw a grid of one row with one cell.
C5_ReturnsGrid ==
  \A c \in Calls :
  (Done(c) /\ call[c].out.kind = "returned"
        /\ call[c].format \in {Str(RAW), Str(TABLE), Str(SingleCellName(variant))})
    => /\ IsGrid(call[c].out.val)
       /\ call[c].format = Str(RAW)
            => (Len(call[c].out.val.v) = 1 /\ Len(call[c].out.val.v[1].v) = 1)

\* ------------------------------------------------------------------------
\* Properties of the formatter (specification SpecF)
\* ------------------------------------------------------------------------
Parsed == fpc = "parsed"
Structured == fFormat \in {Str(TABLE), Str(SingleCellName(variant))}

\* C6: for content that is not JSON, and for the JSON text null, the table
\* and single-cell formats give exactly the fallback grid.
C6_MalformedGivesFallback ==
  (Parsed /\ Structured /\ fKind \in {"truncated", "malformed", "null"})
    => fResult = defaultResponse

C6_Witness ==
  /\ Parsed /\ fKind = "truncated" /\ fFormat = Str(TABLE) /\ Len(fContent) > 3
  /\ fResult = defaultResponse

\* C7: for JSON content without a data field, the table and single-cell
\* formats give the fallback grid in both variants of the formatter.
C7_NoDataGivesFallback ==
  (Parsed /\ Structured /\ fKind = "encoded" /\ fSrc \in NoDataValues)
    => fResult = defaultResponse

\* C8: decoding the JSON encoding of {data: G} as table gives G, and decoding
\* the encoding of {data: v} as single cell gives [[v]].
C8_RoundTrip ==
  /\ (Parsed /\ fKind = "encoded" /\ fSrc \in TableValues /\ fFormat = Str(TABLE))
       => fResult = fSrc.v[1].val
  /\ (Parsed /\ fKind = "encoded" /\ fSrc \in CellResponses
             /\ fFormat = Str(SingleCellName(variant)))
       => fResult = Arr(<<Arr(<<fSrc.v[1].val>>)>>)

C8_Witness ==
  /\ Parsed /\ fFormat = Str(TABLE)
  /\ fSrc = DataObj(Arr(<<Arr(<<Num(1), Str(<<"a">>)>>), Arr(<<Num(20), Str(<<"b", QUOTE>>)>>)>>))
  /\ fResult = Arr(<<Arr(<<Num(1), Str(<<"a">>)>>), Arr(<<Num(20), Str(<<"b", QUOTE>>)>>)>>)

\* ------------------------------------------------------------------------
\* Properties of the streamed-response decoder (SpecS)
\* ------------------------------------------------------------------------
TooManyErrors == sres = Failure(TooManyErrorsMsg)
StreamEnded ==
  /\ spc = "returned"
  /\ sres.error \notin {StreamUnreadableMsg, ReadFailedMsg, NotAuthenticatedMsg,
                        RequestFailedMsg, FetchFailedMsg}

C9_WitnessFive ==
  /\ StreamEnded /\ sres.success /\ hist.bad + hist.nulls = 5
  /\ sres.content # <<>>

\* C10: for a stream of text-delta lines only, the decoded content is the
\* deltas joined in the order they arrived, and formatting it as raw gives
\* the one-cell grid holding that content unchanged.
C10_DeltasConcatenated ==
  spc = "returned" /\ sres.success /\ hist.onlyDeltas =>
    /\ sres.content = hist.deltas
    /\ fpc = "parsed" => fResult = Arr(<<Arr(<<Str(hist.deltas)>>)>>)

C10_Witness ==
  /\ spc = "returned" /\ sres.success /\ hist.onlyDeltas /\ fpc = "parsed"
  /\ sres.content = <<"Risk ", "factors...">>
  /\ fResult = Arr(<<Arr(<<Str(<<"Risk ", "factors...">>)>>)>>)

\* ------------------------------------------------------------------------
\* Properties of the credential stores (specification SpecK)
\* ------------------------------------------------------------------------
OfSession == khist.svc = "session"
InMemory(inst) == IF OfSession THEN sKey[inst] ELSE apiKey[inst]

\* The octagon_api_key field of the cached settings, undefined when there is
\* none or the settings do not parse.
CachedField(ss) ==
  LET d == JSONparse(ss.cached.v) IN
  IF ss.cached.t = "str" /\ d.ok THEN GetProp(d.val, OCTAGON_API_KEY) ELSE Undefined

\* Neither the instance nor any storage location holds a credential.
Cleared(inst) ==
  /\ InMemory(inst) = Null
  /\ IF OfSession THEN session.direct = Null /\ CachedField(session) = Undefined
     ELSE store = Null

\* The value a read of the store gives back.
ReadBack == IF OfSession THEN StoredCredential(session) ELSE store

LastDone(op) == khist.op = op /\ khist.done /\ khist.ok
AnswerOf(inst) == khist.chk /\ khist.cinst = inst

\* C11: once a clear has returned with its storage operations succeeding,
\* whatever operations came before it, the clearing instance holds no key in
\* memory, no storage location holds a credential, and isAuthenticated() on
\* that instance answers false.
C11_ClearLeavesNothing ==
  LastDone("clear") =>
    /\ Cleared(khist.inst)
    /\ AnswerOf(khist.inst) => khist.ret = Bool(FALSE)

C11_Witness ==
  /\ OfSession /\ LastDone("clear") /\ khist.had /\ session.cached # Null
  /\ AnswerOf(khist.inst) /\ khist.ret = Bool(FALSE)

\* A clear of the OfficeRuntime.storage service that removed a stored key.
C11_WitnessExtension ==
  /\ ~OfSession /\ LastDone("clear") /\ khist.had
  /\ AnswerOf(khist.inst) /\ khist.ret = Bool(FALSE)

\* C12: after set(k) with k non-empty after trimming, its storage operations
\* succeeding, the value read back from the store is exactly trim(k),
\* whatever was stored before.
C12_SetThenReadGivesTrimmed ==
  (LastDone("set") /\ Trim(khist.arg) # <<>>) =>
    /\ ReadBack = Str(Trim(khist.arg))
    /\ OfSession => session.direct = Str(Trim(khist.arg))

\* C13: after set(k) with k empty or whitespace-only, its storage operations
\* succeeding, memory and store are as a clear leaves them and
\* isAuthenticated() answers false.
C13_BlankSetClears ==
  (LastDone("set") /\ Trim(khist.arg) = <<>>) =>
    /\ Cleared(khist.inst)
    /\ AnswerOf(khist.inst) => khist.ret = Bool(FALSE)

\* A non-empty credential is stored now.
NonEmptyStored == ReadBack.t = "str" /\ Trim(ReadBack.v) # <<>>

\* C14: where every storage operation has worked, isAuthenticated() answers
\* true exactly when a non-empty credential is stored, on every instance and
\* after any set and clear operations of any instance.
C14_AuthenticatedIffStored ==
  (khist.chk /\ khist.sound) => (khist.ret = Bool(TRUE) <=> NonEmptyStored)

\* C15: no credential operation throws to its caller, whichever storage
\* operation fails, and an isAuthenticated() whose storage read fails
\* answers false.
C15_StorageFailuresCaught ==
  /\ ~khist.threw
  /\ (khist.chk /\ ~khist.cok) => khist.ret = Bool(FALSE)

C15_Witness ==
  /\ OfSession /\ khist.op = "set" /\ khist.done /\ ~khist.ok /\ HoldsCredential(session)
  /\ khist.chk /\ ~khist.cok /\ khist.ret = Bool(FALSE)

\* The same in the OfficeRuntime.storage service: the write failed, then the
\* read of isAuthenticated() failed.
C15_WitnessExtension ==
  /\ ~OfSession /\ khist.op = "set" /\ khist.done /\ ~khist.ok /\ store # Null
  /\ khist.chk /\ ~khist.cok /\ khist.ret = Bool(FALSE)

\* ------------------------------------------------------------------------
\* Properties of error responses (specification SpecU)
\* ------------------------------------------------------------------------

\* The message an error body supplies: the detail of a body that parses as
\* JSON and has one, 'Unknown error' otherwise.
ServerMessage(parsed, json) ==
  IF parsed /\ ~PropThrows(json) /\ GetProp(json, DETAIL).t = "str"
  THEN GetProp(json, DETAIL).v
  ELSE UnknownError

GotErrorStatus(c) == resp.on /\ resp.call = c /\ ~IsOk(resp.status)

\* The extension client's call that got a status outside 200..299 throws
\* "HTTP <status>: <message>".
ExtensionUpstreamError ==
  \A c \in Calls : Done(c) /\ GotErrorStatus(c) =>
    /\ call[c].out.kind = "thrown"
    /\ call[c].out.err.msg = "HTTP" /\ call[c].out.err.status = resp.status
    /\ call[c].out.err.detail = ServerMessage(resp.body.decodable, resp.body.json)

\* The streaming service's call that got such a status returns a failure
\* with the status and the same message.
StreamUpstreamError ==
  spc = "returned" /\ GotErrorStatus(StreamCall) =>
    /\ ~sres.success
    /\ sres.error = RequestFailedMsg /\ sres.status = resp.status
    /\ sres.text = LET p == JSONparse(resp.body.text)
                   IN ServerMessage(resp.body.readable /\ p.ok, p.val)

\* Neither service decodes or formats the body of such a response.
ErrorBodyUnused ==
  /\ \A c \in Calls : Done(c) /\ GotErrorStatus(c) =>
       call[c].out.kind = "thrown" /\ call[c].content = <<>>
  /\ GotErrorStatus(StreamCall) =>
       /\ spc = "returned" /\ ~sres.success /\ sres.content = <<>>
       /\ nread = 0 /\ fullText = <<>> /\ finalResponse = Null /\ fpc = "choose"

\* C16: on every status outside 200..299 the call fails with an error that
\* carries the status and the server's message, or 'Unknown error' when the
\* body does not parse; the body reaches neither the decoder nor the
\* formatter and no grid is returned.
C16_NonOkGivesUpstreamError ==
  ExtensionUpstreamError /\ StreamUpstreamError /\ ErrorBodyUnused

\* The custom function's call c has ended by raising CustomFunctions.Error
\* with this code and message.
Raised(c, code, m) ==
  /\ call[c].out.kind = "thrown"
  /\ call[c].out.err.cls = "CustomFunctions.Error"
  /\ call[c].out.err.code = code /\ call[c].out.err.msg = m

ByCustomFunction(c) == Done(c) /\ call[c].via = "OCTAGON_AGENT"
GotResponse(c) == resp.on /\ resp.call = c
ValidPrompt(c) == call[c].prompt \notin BlankPrompts

\* The failures other than a rejected format: each is raised as notAvailable.
OtherFailuresNotAvailable(c) ==
  /\ ~ValidPrompt(c) => Raised(c, "notAvailable", InvalidPromptMsg)
  /\ (ValidPrompt(c) /\ ~call[c].authed) => Raised(c, "notAvailable", NotAuthenticatedMsg)
  /\ GotErrorStatus(c) => Raised(c, "notAvailable", "HTTP")
  /\ (GotResponse(c) /\ IsOk(resp.status) /\ parseAgentResponse(resp.body).threw)
       => Raised(c, "notAvailable", ProcessFailedMsg)

\* C17 as stated: OCTAGON_AGENT raises CustomFunctions.Error with the code
\* notAvailable on an empty prompt, an unrecognized format, a missing
\* credential, an upstream error and a response-processing failure, and
\* whatever it raises has that class and that code.
C17_EveryFailureNotAvailable ==
  \A c \in Calls : ByCustomFunction(c) =>
    /\ OtherFailuresNotAvailable(c)
    /\ (ValidPrompt(c) /\ call[c].authed /\ UnrecognizedFormat(call[c].format))
         => Raised(c, "notAvailable", InvalidFormatError.msg)
    /\ call[c].out.kind = "thrown" =>
         call[c].out.err.cls = "CustomFunctions.Error" /\ call[c].out.err.code = "notAvailable"

\* C17 as amended: a format that getTextFormat rejects is raised with the
\* code invalidValue, the CustomFunctions.Error of getTextFormat being
\* rethrown as it is; every other failure is raised with notAvailable.
\* Whatever is raised is a CustomFunctions.Error with one of these two codes,
\* and a value is returned only by a call that failed in none of these ways.
C17_NotAvailableOrInvalidValue ==
  \A c \in Calls : ByCustomFunction(c) =>
    /\ OtherFailuresNotAvailable(c)
    /\ (ValidPrompt(c) /\ call[c].authed /\ GetTextFormatOf(variant, call[c].format).threw)
         => /\ call[c].out = Thrown(InvalidFormatError)
            /\ call[c].out.err.code = "invalidValue"
    /\ call[c].out.kind = "thrown" =>
         /\ call[c].out.err.cls = "CustomFunctions.Error"
         /\ call[c].out.err.code =
              IF call[c].out.err.msg = InvalidFormatError.msg THEN "invalidValue"
              ELSE "notAvailable"
    /\ call[c].out.kind = "returned" =>
         /\ ValidPrompt(c) /\ call[c].authed
         /\ ~GetTextFormatOf(variant, call[c].format).threw
         /\ Len(RequestsOf(c)) = 1
         /\ GotResponse(c) => IsOk(resp.status) /\ ~parseAgentResponse(resp.body).threw

\* The custom function rejected the format xml with a key stored.
C17_Witness ==
  \E c \in Calls :
    /\ ByCustomFunction(c) /\ call[c].authed /\ call[c].format = Str(<<"x", "m", "l">>)
    /\ Raised(c, "invalidValue", InvalidFormatError.msg)

\* The custom function raised notAvailable for a response with status 500
\* whose body could not be decoded.
C17_WitnessUpstream ==
  \E c \in Calls :
    /\ ByCustomFunction(c) /\ GotErrorStatus(c) /\ resp.status = 500
    /\ ~resp.body.decodable
    /\ Raised(c, "notAvailable", "HTTP") /\ call[c].out.err.detail = UnknownError

\* ------------------------------------------------------------------------
\* Properties of concurrent calls (specification SpecN)
\* ------------------------------------------------------------------------

\* The call passed the prompt check, isAuthenticated() and the format check.
Passed(c) ==
  /\ ValidPrompt(c) /\ call[c].authed
  /\ ~GetTextFormatOf(variant, call[c].format).threw

\* No call has more than one request, whatever its outcome.
AtMostOneRequest ==
  /\ \A c \in Calls : Len(RequestsOf(c)) <= 1
  /\ Len(RequestsOf(StreamCall)) <= 1

\* A call has its request exactly from the fetch on, and every call that
\* got as far has its own.
OneRequestFromFetchOn ==
  /\ \A c \in Calls :
       Len(RequestsOf(c)) = 1 <=>
         \/ call[c].pc = "fetch"
         \/ Done(c) /\ Passed(c) /\ ~Failed(c, NoApiKeyMsg)
  /\ Len(RequestsOf(StreamCall)) = 1 <=>
       \/ spc \in {"fetch", "responded"}
       \/ spc = "returned" /\ sres.error # NotAuthenticatedMsg
  /\ Len(http) = Len(RequestsOf(StreamCall)) + Len(RequestsOf(1)) + Len(RequestsOf(2))

\* C18: under every interleaving of concurrent calls, a call that has ended
\* has issued exactly one HTTP request if it passed input validation and the
\* authentication check and none otherwise, failed or not, and concurrent
\* calls with the same prompt each have their own request.
C18_OneRequestPerPassedCall ==
  /\ AtMostOneRequest
  /\ \A c \in Calls : Done(c) => (Len(RequestsOf(c)) = 1 <=> Passed(c))
  /\ spc = "returned" => (Len(RequestsOf(StreamCall)) = 1 <=> sres.error # NotAuthenticatedMsg)

\* Two calls with the same prompt have ended, one failed, and each has issued
\* its own request.
TwoCallsTwoRequests ==
  /\ Done(1) /\ Done(2) /\ call[1].prompt = call[2].prompt
  /\ call[1].out.kind = "thrown" /\ call[2].out.kind = "returned"
  /\ Len(http) = 2 /\ http[1].input = http[2].input

\* A step of an agent call of either service: the call moves on.
CallStep == (\E c \in Calls : call'[c] # call[c]) \/ spc' # spc

\* C19: no step of an agent call, from its start to its success or to any
\* of its failures, changes what the credential storage holds: the item of
\* OfficeRuntime.storage and both sessionStorage items stay as they were.
C19_CallLeavesStoreUnchanged ==
  [][CallStep => (store' = store /\ session' = session)]_vars

\* With a key stored, one call has failed on the response and the other has
\* returned a grid.
C19_Witness ==
  /\ store = Str(<<"k1">>)
  /\ \E c, d \in Calls :
       /\ Done(c) /\ Failed(c, ProcessFailedMsg)
       /\ Done(d) /\ call[d].out.kind = "returned"

\* The streaming service's call has failed on a 401 with the key still in
\* both sessionStorage items.
C19_WitnessSession ==
  /\ spc = "returned" /\ sres.error = RequestFailedMsg /\ sres.status = 401
  /\ session = SignedIn

\* ------------------------------------------------------------------------
\* The result of a completed decode (specification SpecS)
\* ------------------------------------------------------------------------

\* C20: a decode that reached the end of its stream without the sixth
\* failed line returns a successful result whose content is the accumulated
\* text, the empty string when there is none, and whose id and model are
\* those of the last response captured, empty strings when none was captured
\* or the captured one has none; a stream without lines gives the empty
\* content and the empty id and model.
C20_ResultWellFormed ==
  /\ (StreamEnded /\ ~TooManyErrors) => sres.success
  /\ (spc = "returned" /\ sres.success) =>
       /\ sres.content = fullText
       /\ hist.noFinalText => sres.content = hist.deltas
       /\ sres.id = hist.final.id /\ sres.model = hist.final.model
       /\ nread = 0 => sres = [NoResult EXCEPT !.success = TRUE]

\* A created event's response was captured first and a completed event's
\* response after it: the result has the id of the later one.
C20_Witness ==
  /\ spc = "returned" /\ sres.success /\ sres.id = <<"r1">>
  /\ finalResponse = ResponseObj(<<"r1">>) /\ nread >= 3 /\ sres.content # <<>>
  /\ hist.final.id = <<"r1">>

\* A stream that ended without a single line.
C20_WitnessEmpty ==
  spc = "returned" /\ sres.success /\ nread = 0 /\ sres.content = <<>> /\ sres.id = <<>>

\* A completed event without a response came after a captured response.
C20_WitnessErased ==
  /\ spc = "returned" /\ sres.success /\ finalResponse = Undefined /\ sres.id = <<>>

\* ------------------------------------------------------------------------
\* The order of the steps of a call (specification SpecO)
\* ------------------------------------------------------------------------

\* The requests of call c after the step.
RequestsAfter(c) == SelectSeq(http', LAMBDA r : r.call = c)

\* The positions a call goes through, in their order.
CallOrder ==
  {<<"idle", "getItem">>, <<"idle", "done">>, <<"getItem", "isAuthenticated">>,
   <<"isAuthenticated", "authReturned">>, <<"authReturned", "fetch">>,
   <<"authReturned", "done">>, <<"fetch", "done">>}

\* The step takes call c from position a to position b.
Moves(c, a, b) == call[c].pc = a /\ call'[c].pc = b

\* Nothing was decoded or formatted for the call that ends in this step.
EndsUnformatted(c) == call'[c].out.kind = "thrown" /\ call'[c].content = <<>>

StepInOrder(c) ==
  /\ call'[c].pc # call[c].pc => <<call[c].pc, call'[c].pc>> \in CallOrder
  /\ RequestsAfter(c) # RequestsOf(c) =>
       /\ Moves(c, "authReturned", "fetch") /\ Len(RequestsAfter(c)) = 1
       /\ Passed(c) /\ Truthy(apiKey[call[c].inst])
  /\ Moves(c, "idle", "done") =>
       /\ call'[c].prompt \in BlankPrompts /\ EndsUnformatted(c)
       /\ apiKey' = apiKey
  /\ Moves(c, "idle", "getItem") => call'[c].prompt \notin BlankPrompts
  /\ Moves(c, "authReturned", "done") =>
       /\ ~(Passed(c) /\ Truthy(apiKey[call[c].inst])) /\ EndsUnformatted(c)
       /\ RequestsAfter(c) = <<>>
  /\ Moves(c, "authReturned", "fetch") => Passed(c)
  /\ (Moves(c, "fetch", "done") /\ resp'.call # c) => EndsUnformatted(c)
  /\ (Moves(c, "fetch", "done") /\ resp'.call = c) =>
       IF ~IsOk(resp'.status) \/ parseAgentResponse(resp'.body).threw
       THEN EndsUnformatted(c)
       ELSE /\ call'[c].out.kind = "returned"
            /\ call'[c].content # <<>>
            /\ call'[c].out.val = ParseTextFormatOf(variant, call'[c].content, call[c].format)

\* C21: in every execution of a call the request is issued only after the
\* prompt check, the authentication check and the format check of that call
\* have succeeded, the response is decoded only after a 2xx status and the
\* content is formatted only after a successful decode; a call that fails at
\* one step ends there, with none of the later steps done.
C21_StepsInOrder ==
  [][\A c \in Calls : StepInOrder(c)]_vars

\* One call was refused for its format with no request sent while the other
\* went through every step and returned a grid for a 299 response.
C21_Witness ==
  /\ Done(1) /\ call[1].out = Thrown(InvalidFormatError) /\ NoRequest(1)
  /\ Done(2) /\ call[2].out.kind = "returned" /\ Len(RequestsOf(2)) = 1
  /\ resp.call = 2 /\ resp.status = 299

\* ------------------------------------------------------------------------
\* The text accumulator (specification SpecD)
\* ------------------------------------------------------------------------
NoText == Line("none", <<>>)
DecodedWhole == dec.pc # "idle" /\ ~dec.whole.threw
EndsWithFinalText == IsFinalText(LastText(dec.lines, NoText))

\* C22 as stated: when the last text event of a stream is a text-done or a
\* content-part-done event with the text T, the decoded content is exactly
\* T, whatever deltas came before it.
C22_FinalTextReplaces ==
  (DecodedWhole /\ EndsWithFinalText) => dec.whole.fullText = LastText(dec.lines, NoText).a

\* C22 as amended: the same for a text T that is not empty; an event whose
\* text is empty is passed over and leaves the accumulated text as it was.
\* In every case the content is what the rule "a delta is appended, a final
\* text that is not empty replaces" gives.
C22_NonEmptyFinalTextReplaces ==
  /\ (DecodedWhole /\ EndsWithFinalText /\ LastText(dec.lines, NoText).a # <<>>)
       => dec.whole.fullText = LastText(dec.lines, NoText).a
  /\ DecodedWhole => dec.whole.fullText = Accumulate(dec.lines, <<>>)

\* Two deltas, then a text-done event with the text T: the content is T.
C22_Witness ==
  /\ DecodedWhole /\ Len(dec.lines) = 3 /\ dec.lines[1].k = "delta" /\ dec.lines[2].k = "delta"
  /\ dec.lines[3] = Line("textDone", <<"T">>)
  /\ dec.whole.fullText = <<"T">>

\* A delta, then a content-part-done event whose text is empty: the content
\* is still the delta.
C22_WitnessEmptyText ==
  /\ DecodedWhole /\ Len(dec.lines) = 2 /\ dec.lines[1].k = "delta"
  /\ dec.lines[2] = Line("partDone", <<>>)
  /\ dec.whole.fullText = <<"Risk ">>

\* ------------------------------------------------------------------------
\* Decodes of a whole stream compared (specification SpecD)
\* ------------------------------------------------------------------------
HasDone(ls) == \E i \in 1..Len(ls) : ls[i].k = "DONE"

\* C23: a "data: [DONE]" line changes nothing in the decoder, neither the
\* count of failed lines nor the accumulated text nor the captured response:
\* the decode of a stream and the decode of the same stream without its
\* [DONE] lines end in the same state.
C23_DoneIsNoOp ==
  dec.pc = "noDone" => dec.whole = dec.parts

\* A stream of five lines that are not JSON and a [DONE] line: the count
\* stays at five and the decode does not give up.
C23_Witness ==
  /\ dec.pc = "noDone" /\ HasDone(dec.lines)
  /\ dec.whole.parseErrorCount = 5 /\ ~dec.whole.threw

\* A [DONE] line between a delta and a completed event.
C23_WitnessBetween ==
  /\ dec.pc = "noDone" /\ Len(dec.lines) = 2 /\ dec.lines[2].k = "DONE"
  /\ dec.whole.fullText # <<>>

SameOutcome(a, b) ==
  /\ a.fullText = b.fullText
  /\ a.finalResponse = b.finalResponse
  /\ a.threw = b.threw

\* C25: the decoded result does not depend on how the stream is cut into
\* chunks, a cut in the middle of a "data: " line included: the content, the
\* captured response and whether the decode gave up over failed lines are
\* those of the same bytes delivered as one chunk.
C25_ChunkingIrrelevant ==
  dec.pc = "cut" => SameOutcome(dec.whole, dec.parts)

\* Cut at the end of a line, the two chunks decode to what the whole does,
\* the count of failed lines included.
CutsAtLineEndsAgree ==
  dec.pc = "cut" /\ dec.atNewline => dec.whole = dec.parts

\* ------------------------------------------------------------------------
\* The read loop runs to its end (specification SpecL)
\* ------------------------------------------------------------------------
SuccessOnlyAfterDone ==
  /\ spc = "returned" /\ sres.success => hist.done
  /\ spc = "returned" /\ ~hist.done => ~sres.success /\ sres.error # "none"
  /\ spc # "returned" => sres = NoResult

\* C24: the read loop is driven to completion or to an explicit failure:
\* a decode that has begun to read eventually returns, a success result is
\* returned only after a read has reported done, and a return before that
\* is a failure result, never a success with what was read so far.
C24_ReadToTheEnd ==
  /\ []SuccessOnlyAfterDone
  /\ (spc = "reading") ~> (spc = "returned")

\* A success after two lines were read and a read reported done.
C24_Witness ==
  /\ spc = "returned" /\ sres.success /\ hist.done /\ nread >= 2

\* A return after reads, before any read reported done: a failure.
C24_WitnessEarly ==
  /\ spc = "returned" /\ ~hist.done /\ nread >= 2 /\ ~sres.success

\* ------------------------------------------------------------------------
\* The decode of a response that is not streamed (specification SpecP)
\* ------------------------------------------------------------------------
IsObject(x) == x.t = "obj"
HasOutputArray(b) == IsObject(b) /\ GetProp(b, OUTPUT).t = "arr"

\* The text of a part: its text field when that is a string.
TextOfPart(part) ==
  IF IsObject(part) /\ GetProp(part, TYPE) = Str(<<"output_text">>)
     /\ GetProp(part, TEXT).t = "str"
  THEN GetProp(part, TEXT).v ELSE <<>>

RECURSIVE TextOfParts(_)
TextOfParts(parts) ==
  IF parts = <<>> THEN <<>> ELSE TextOfPart(Head(parts)) \o TextOfParts(Tail(parts))

TextOfItem(item) ==
  IF IsObject(item) /\ GetProp(item, TYPE) = Str(<<"message">>)
     /\ GetProp(item, CONTENT).t = "arr"
  THEN TextOfParts(GetProp(item, CONTENT).v) ELSE <<>>

RECURSIVE TextOfItems(_)
TextOfItems(items) ==
  IF items = <<>> THEN <<>> ELSE TextOfItem(Head(items)) \o TextOfItems(Tail(items))

FieldOf(b, key) == IF IsObject(b) THEN GetProp(b, key) ELSE Undefined

AsClaimed(b, r) ==
  /\ ~r.threw
  /\ r.content = IF HasOutputArray(b) THEN TextOfItems(GetProp(b, OUTPUT).v) ELSE <<>>
  /\ r.id = FieldOf(b, IDKEY) /\ r.model = FieldOf(b, MODELKEY)

\* C26: for a body with an output array the content is the texts of the
\* output_text parts of the message items, in order, and nothing else
\* contributes; a body without an output array gives empty content with
\* the body's id and model.
C26_ContentIsOutputText ==
  dec.pc = "parsed" => AsClaimed(dec.body, dec.result)

\* Every item and every part an object, every output_text part with a text
\* that is a string.
PartWellFormed(part) ==
  IsObject(part) /\ (GetProp(part, TYPE) = Str(<<"output_text">>) => GetProp(part, TEXT).t = "str")
ItemWellFormed(item) ==
  /\ IsObject(item)
  /\ GetProp(item, CONTENT).t = "arr" =>
       \A i \in 1..Len(GetProp(item, CONTENT).v) : PartWellFormed(GetProp(item, CONTENT).v[i])
BodyWellFormed(b) ==
  /\ b.t # "null"
  /\ HasOutputArray(b) =>
       \A i \in 1..Len(GetProp(b, OUTPUT).v) : ItemWellFormed(GetProp(b, OUTPUT).v[i])

\* On such bodies the decode is as claimed.
WellFormedBodiesAsClaimed ==
  dec.pc = "parsed" /\ BodyWellFormed(dec.body) => AsClaimed(dec.body, dec.result)

\* ------------------------------------------------------------------------
\* What a failed call shows in the cell (specification SpecG)
\* ------------------------------------------------------------------------
ServiceFailed == spc = "returned" /\ ~sres.success
CellGiven == dec.pc = "cell"

\* C27: a failed call surfaces its condition: when the service has returned
\* success false with the error e, the string given to the cell is an
\* "Error: " message that contains e.
C27_FailureSurfaces ==
  (CellGiven /\ ServiceFailed) => (dec.cell.error /\ dec.cell.msg = sres.error)

\* Whatever the service returned, the function gives a string and does not
\* reject; a failure of the service is shown as an "Error: " message.
FailureGivesErrorCell ==
  (CellGiven /\ ServiceFailed) => dec.cell.error

\* ------------------------------------------------------------------------
\* The two places of the session store (specification SpecK)
\* ------------------------------------------------------------------------
SettingsOf(ss) == JSONparse(ss.cached.v)
SettingsAbsentOrObject(ss) ==
  ss.cached = Null \/ (SettingsOf(ss).ok /\ SettingsOf(ss).val.t = "obj")

\* The octagon_api_key field of the cached settings, Undefined when there
\* are no settings or no such field.
SettingsField(ss) ==
  IF ss.cached # Null /\ SettingsOf(ss).ok /\ SettingsOf(ss).val.t = "obj"
  THEN GetProp(SettingsOf(ss).val, OCTAGON_API_KEY) ELSE Undefined

PlacesAgree(ss) ==
  \/ ss.direct = Null /\ SettingsField(ss) = Undefined
  \/ ss.direct # Null /\ SettingsField(ss) = ss.direct

AfterSetOrClear ==
  /\ khist.svc = "session" /\ khist.op \in {"set", "clear"} /\ khist.sound
  /\ SettingsAbsentOrObject(session)

\* C28: in the session-storage service, with settings that are absent or a
\* JSON object and storage calls that succeed, after set and clear
\* operations the direct item and the octagon_api_key field of the cached
\* settings hold the same credential or are both absent, and loadApiKey
\* finds the credential set last (none after a clear).
C28_DualStorageAgrees ==
  AfterSetOrClear =>
    /\ PlacesAgree(session)
    /\ khist.op = "set" =>
         /\ session.direct = Str(khist.arg)
         /\ khist.arg # <<>> => StoredCredential(session) = Str(khist.arg)
    /\ khist.op = "clear" => session.direct = Null /\ StoredCredential(session) = Null

\* A key set into settings of another feature: both places hold it and the
\* other setting is kept.
C28_Witness ==
  /\ AfterSetOrClear /\ khist.op = "set" /\ khist.arg = <<"k1">>
  /\ session.direct = Str(<<"k1">>) /\ SettingsField(session) = Str(<<"k1">>)
  /\ GetProp(SettingsOf(session).val, <<"theme">>) = Str(<<"dark">>)

\* A clear after a set: both places are empty, the settings remain.
C28_WitnessCleared ==
  /\ AfterSetOrClear /\ khist.op = "clear" /\ khist.had
  /\ session.direct = Null /\ session.cached # Null /\ SettingsField(session) = Undefined

\* ------------------------------------------------------------------------
\* The task pane's check and the service's check (specification SpecK)
\* ------------------------------------------------------------------------
LastOpBy(inst) ==
  /\ khist.svc = "session" /\ khist.op \in {"set", "clear"} /\ khist.inst = inst
  /\ khist.sound

\* C29: after set and clear operations with any strings, checkForStoredApiKey()
\* and isAuthenticated() of the service give the same answer.
C29_ChecksAgree ==
  \A inst \in Instances :
    LastOpBy(inst) => (checkForStoredApiKey(session) <=> AuthenticatedNow(inst))

\* The same for a key that is not blank and settings that are absent or an
\* object, on the instance that made the last operation.
ChecksAgreeOnProperKeys ==
  \A inst \in Instances :
    (LastOpBy(inst) /\ SettingsAbsentOrObject(session)
       /\ (khist.op = "set" => Trim(khist.arg) # <<>>))
    => (checkForStoredApiKey(session) <=> AuthenticatedNow(inst))

\* ------------------------------------------------------------------------
\* The token of every request (specification Spec)
\* ------------------------------------------------------------------------
HasToken(r) == r.token.t = "str" /\ r.token.v # <<>>

\* The call resumes after its authentication check has passed and finds
\* this.apiKey cleared.
ResumesWithoutKey(c) ==
  /\ call[c].pc = "authReturned" /\ call[c].authed
  /\ ~Truthy(apiKey[call[c].inst])
  /\ call'[c] # call[c]

\* C30: under every interleaving of callAgent with setApiKey and
\* clearApiKey of the instances, every request sent carries a token that
\* is a non-empty string, and a call whose key was cleared between its
\* authentication check and its request ends with an error and sends
\* nothing.
C30_EveryRequestHasToken ==
  [][/\ \A i \in 1..Len(http') : HasToken(http'[i])
     /\ \A c \in Calls :
          ResumesWithoutKey(c) =>
            /\ http' = http
            /\ call'[c].pc = "done"
            /\ call'[c].out \in {Thrown(Wrap(call[c].via, Error(NoApiKeyMsg))),
                                  Thrown(Wrap(call[c].via, InvalidFormatError))}]_vars

\* A call that passed its authentication check and ended with "No API key
\* provided".
C30_Witness ==
  /\ call[1].pc = "done" /\ call[1].authed
  /\ call[1].out = Thrown(Error(NoApiKeyMsg))

\* A request sent after credential operations of both instances.
C30_WitnessSent ==
  /\ Len(http) >= 1 /\ HasToken(http[Len(http)])
  /\ credOp.op # "none"

====
